---- MODULE Spec2Model ----
(***************************************************************************)
(* A model of fastmc's framing layer, endpoint state machine and cipher    *)
(* socket adapter (src/fastmc/proto.py), with the read loop of the example *)
(* server and client (src/examples/server.py, src/examples/client.py).     *)
(*                                                                         *)
(* Bytes are the integers 0..255, byte strings are sequences of bytes, a   *)
(* Python None is the empty tuple and a present optional value v is <<v>>. *)
(***************************************************************************)
EXTENDS Integers, Sequences, FiniteSets, Bags, TLC

VARIABLES
    reader,     \* the receiving Endpoint: [side, state, state_packets, threshold]
    writer,     \* the sending Endpoint of the same direction
    in_buf,     \* the ReadBuffer: [buf, pos]
    out_buf,    \* the WriteBuffer: every byte written so far
    delivered,  \* how many bytes of out_buf the transport has handed to in_buf
    sent,       \* history: one record per frame written: [pkt, state, threshold, size]
    got,        \* history: one record per Endpoint.read that returned or raised
    last,       \* history: the last operation and its outcome
    calls,      \* how many of the counted steps (configuration calls, peer chunks) ran
    asked,      \* history: the arguments of each Endpoint's latest such calls
    sock,       \* the MinecraftSocket session of the cipher specification
    imported,   \* how many registrations of the catalog the module import has made
    history,    \* the registrations the application made after the import, in order
    snap        \* history: the ReadBuffer snapshots taken

vars == <<reader, writer, in_buf, out_buf, delivered, sent, got, last, calls, asked, sock,
          imported, history, snap>>

\* what the session's steps leave alone
registry_vars == <<imported, history, snap>>

-----------------------------------------------------------------------------
(* Python values *)

None == <<>>
Some(v) == <<v>>
IsNone(o) == o = <<>>
Val(o) == o[1]

Min(a, b) == IF a < b THEN a ELSE b
Max(a, b) == IF a < b THEN b ELSE a

\* s[from..], the bytes of s after its first `from` bytes
Drop(s, from) == SubSeq(s, from + 1, Len(s))
\* s[:n]
Take(s, n) == SubSeq(s, 1, Min(n, Len(s)))

-----------------------------------------------------------------------------
(* cStringIO: a byte string with a cursor, [buf, pos], pos counted from 0 *)

StringIO(data) == [buf |-> data, pos |-> 0]

\* read(count): up to count bytes from the cursor, which moves past them; a
\* negative count reads to the end.
ReadBytes(b, count) ==
    LET avail == Max(Len(b.buf) - b.pos, 0)
        n == IF count < 0 \/ count > avail THEN avail ELSE count
    IN  SubSeq(b.buf, b.pos + 1, b.pos + n)

ReadSkip(b, count) ==
    [b EXCEPT !.pos = b.pos + Len(ReadBytes(b, count))]

\* the bytes not read yet
Unread(b) == Drop(b.buf, b.pos)

-----------------------------------------------------------------------------
(* ReadBuffer *)

MaxSize == 16384

init_buffer(data) == [buf |-> data, pos |-> 0]

\* faulty variant: compaction rewinds the cursor and keeps the bytes read
append_rewinding(b, data) ==
    [buf |-> b.buf \o data, pos |-> IF b.pos > MaxSize THEN 0 ELSE b.pos]

\* faulty variant: the write lands at the cursor, with no seek to the end
append_at_cursor(b, data) == [buf |-> Take(b.buf, b.pos) \o data, pos |-> b.pos]

append(b, data) ==
    IF b.pos > MaxSize
    THEN LET shuffled == init_buffer(Unread(b))
         IN  [buf |-> shuffled.buf \o data, pos |-> 0]
    ELSE [buf |-> b.buf \o data, pos |-> b.pos]

snapshot(b) == b.pos

\* faulty variant: the cursor stays where the failed read left it
restore_nothing(b, read_pos) == b

restore(b, read_pos) == [b EXCEPT !.pos = read_pos]

-----------------------------------------------------------------------------
(* varint *)

Pow2(n) == 2 ^ n

\* The loop of read_varint: b is the buffer with the cursor on the next byte.
\* The result is [ok, value, b]: ok is FALSE for the None of a short read, and
\* b is the buffer after the bytes the call consumed. A quantum with no value
\* bits adds nothing whatever the shift: the product is not formed for it, so
\* that an encoding of any length can be read.
RECURSIVE read_varint_loop(_, _, _)
read_varint_loop(b, value, shift) ==
    LET byte == ReadBytes(b, 1)
        b1 == ReadSkip(b, 1)
    IN  IF byte = <<>>
        THEN [ok |-> FALSE, value |-> 0, b |-> b1]
        ELSE LET quantum == byte[1]
                 value1 == IF quantum % 128 = 0 THEN value
                           ELSE value + (quantum % 128) * Pow2(shift)
             IN  IF quantum < 128
                 THEN [ok |-> TRUE, value |-> value1, b |-> b1]
                 ELSE read_varint_loop(b1, value1, shift + 7)

read_varint(b) ==
    LET byte == ReadBytes(b, 1)
        b1 == ReadSkip(b, 1)
    IN  IF byte = <<>>
        THEN [ok |-> FALSE, value |-> 0, b |-> b1]
        ELSE IF byte[1] <= 127
        THEN [ok |-> TRUE, value |-> byte[1], b |-> b1]
        ELSE read_varint_loop(b1, byte[1] % 128, 7)

\* The loop of write_varint (value > 127 on entry): the bytes written.
RECURSIVE write_varint_loop(_)
write_varint_loop(value) ==
    LET shifted_value == value \div 128
    IN  IF shifted_value # 0
        THEN <<(value % 128) + 128>> \o write_varint_loop(shifted_value)
        ELSE <<value % 128>>

\* faulty variant: every value takes the fast path of one byte
write_varint_fast(value) == <<value % 128>>

\* The bytes write_varint(b, value) writes, for value >= 0.
write_varint(value) ==
    IF value <= 127 THEN <<value>> ELSE write_varint_loop(value)

\* faulty variant: every varint is taken to be one byte long
size_varint_one(value) == 1

RECURSIVE size_varint(_)
size_varint(value) ==
    IF value \div 128 # 0 THEN 1 + size_varint(value \div 128) ELSE 1

-----------------------------------------------------------------------------
(* zlib, as str.encode('zlib') / str.decode('zlib') use it.  A stream is the *)
(* two header bytes, deflate blocks and the big-endian Adler-32 of the data. *)
(* The deflate block coding is kept in its stored form (one final block of   *)
(* type 00: LEN, its complement NLEN, then the bytes), the form every zlib   *)
(* decoder accepts; Huffman-coded blocks are not modelled.                   *)

AdlerBase == 65521

\* The sum of the bytes of data, the byte at position i counted once, or
\* Len(data) - i + 1 times when weighted: the size of the bag that holds
\* position i that many times.
byte_sum(data, weighted) ==
    BagCardinality([i \in {j \in DOMAIN data : data[j] > 0} |->
                       data[i] * (IF weighted THEN Len(data) - i + 1 ELSE 1)])

\* Adler-32, big-endian: a is 1 plus the bytes, b the sum of every value a
\* took, both modulo AdlerBase
adler32(data) ==
    LET a == (1 + byte_sum(data, FALSE)) % AdlerBase
        b == (Len(data) + byte_sum(data, TRUE)) % AdlerBase
    IN  <<b \div 256, b % 256, a \div 256, a % 256>>

zlib_compress(data) ==
    LET len == Len(data)
    IN  <<120, 1>>
        \o <<1, len % 256, len \div 256, 255 - (len % 256), 255 - (len \div 256)>>
        \o data
        \o adler32(data)

\* [ok, data]: ok is FALSE where zlib.decompress raises zlib.error.  Bytes that
\* follow a complete stream are ignored, as zlib.decompress ignores them.
zlib_decompress(s) ==
    LET bad == [ok |-> FALSE, data |-> <<>>]
    IN  IF Len(s) < 7 THEN bad
        ELSE IF s[1] # 120 \/ (s[1] * 256 + s[2]) % 31 # 0 \/ (s[2] \div 32) % 2 = 1
        THEN bad
        ELSE IF s[3] % 8 # 1 THEN bad
        ELSE LET len == s[4] + 256 * s[5]
                 nlen == s[6] + 256 * s[7]
             IN  IF len + nlen # 65535 THEN bad
                 ELSE IF Len(s) < 7 + len + 4 THEN bad
                 ELSE LET data == SubSeq(s, 8, 7 + len)
                      IN  IF SubSeq(s, 8 + len, 11 + len) # adler32(data)
                          THEN bad
                          ELSE [ok |-> TRUE, data |-> data]

-----------------------------------------------------------------------------
(* Framing: read_raw and the frame write_packet builds *)

\* read_raw(b, compression_threshold): [kind, data, b].  kind is "None" (more
\* bytes are needed), "data" (data is the packet body) or "raise" (data is
\* empty, the exception propagates); b is the ReadBuffer after the call.

\* b.restore(ss); return None
need_more(b, ss) == [kind |-> "None", data |-> <<>>, b |-> restore(b, ss)]

raise_ValueError(b) == [kind |-> "raise", data |-> <<>>, b |-> b]

\* faulty variant: what decompresses is returned, its length unchecked
read_raw_decompressed_unchecked(decompressed, data_length, compression_threshold, b) ==
    IF ~decompressed.ok THEN raise_ValueError(b)
    ELSE [kind |-> "data", data |-> decompressed.data, b |-> b]

\* read_raw after decompressed = data.decode('zlib')
read_raw_decompressed(decompressed, data_length, compression_threshold, b) ==
    IF ~decompressed.ok THEN raise_ValueError(b)
    ELSE IF Len(decompressed.data) # data_length THEN raise_ValueError(b)
    ELSE IF Len(decompressed.data) < compression_threshold THEN raise_ValueError(b)
    ELSE [kind |-> "data", data |-> decompressed.data, b |-> b]

\* read_raw after data_length = read_varint(b), in compressed mode
read_raw_compressed(ss, pkt_size, len, compression_threshold) ==
    IF ~len.ok THEN need_more(len.b, ss)
    ELSE LET data_length == len.value
             data_size == pkt_size - size_varint(data_length)
             data == ReadBytes(len.b, data_size)
             b == ReadSkip(len.b, data_size)
         IN  IF Len(data) # data_size THEN need_more(b, ss)
             ELSE IF data_length = 0
             THEN IF Len(data) >= compression_threshold
                  THEN raise_ValueError(b)
                  ELSE [kind |-> "data", data |-> data, b |-> b]
             ELSE read_raw_decompressed(zlib_decompress(data), data_length,
                                        compression_threshold, b)

\* read_raw after pkt_size = read_varint(b)
read_raw_sized(ss, size, compression_threshold) ==
    IF ~size.ok THEN need_more(size.b, ss)
    ELSE IF ~IsNone(compression_threshold)
    THEN read_raw_compressed(ss, size.value, read_varint(size.b),
                             Val(compression_threshold))
    ELSE LET pkt_size == size.value
             data == ReadBytes(size.b, pkt_size)
             b == ReadSkip(size.b, pkt_size)
         IN  IF Len(data) # pkt_size THEN need_more(b, ss)
             ELSE [kind |-> "data", data |-> data, b |-> b]

read_raw(b, compression_threshold) ==
    read_raw_sized(snapshot(b), read_varint(b), compression_threshold)

\* The bytes write_packet(b, pkt, compression_threshold) writes to b, where
\* raw is the scratch buffer's value: varint(pkt.id) and what pkt.emit wrote.
\* faulty variant: a body of exactly the threshold's size is left uncompressed
write_frame_above(raw, compression_threshold) ==
    IF IsNone(compression_threshold)
    THEN write_varint(Len(raw)) \o raw
    ELSE IF Len(raw) > Val(compression_threshold)
    THEN write_varint(size_varint(Len(raw)) + Len(zlib_compress(raw)))
         \o write_varint(Len(raw)) \o zlib_compress(raw)
    ELSE write_varint(size_varint(0) + Len(raw)) \o write_varint(0) \o raw

write_frame(raw, compression_threshold) ==
    LET size == Len(raw)
    IN  IF IsNone(compression_threshold)
        THEN write_varint(size) \o raw
        ELSE IF size >= Val(compression_threshold)
        THEN LET compressed == zlib_compress(raw)
             IN  write_varint(size_varint(Len(raw)) + Len(compressed))
                 \o write_varint(Len(raw))
                 \o compressed
        ELSE LET data_size == size_varint(0) + Len(raw)
             IN  write_varint(data_size) \o write_varint(0) \o raw

-----------------------------------------------------------------------------
(* Primitive codecs.  A field value is a tuple: Some(v) for a number, the    *)
(* two words of a long, the code points of a string, the bytes of a byte     *)
(* array, None for None.  A reader gives [ok, value, b]: ok is FALSE where   *)
(* the reader raises.                                                        *)

\* struct.pack of one big-endian integer of n bytes (two's complement)
\* faulty variant: the least significant byte first
RECURSIVE pack_int_little_endian(_, _)
pack_int_little_endian(value, n) ==
    IF n = 0 THEN <<>> ELSE <<value % 256>> \o pack_int_little_endian(value \div 256, n - 1)

RECURSIVE pack_int(_, _)
pack_int(value, n) ==
    IF n = 0 THEN <<>> ELSE pack_int(value \div 256, n - 1) \o <<value % 256>>

\* struct.unpack of one big-endian integer: the bytes folded from the left
RECURSIVE unpack_loop(_, _)
unpack_loop(acc, bytes) ==
    IF bytes = <<>> THEN acc
    ELSE unpack_loop(256 * acc + bytes[1], Drop(bytes, 1))

unpack_unsigned(bytes) == unpack_loop(0, bytes)

unpack_signed(bytes) ==
    unpack_loop(IF bytes[1] >= 128 THEN bytes[1] - 256 ELSE bytes[1], Drop(bytes, 1))

\* PRIMITIVES: parser name -> (struct format character, size, read_mod,
\* write_mod).  The mods of byte32 are "%s / 32.0" and "int(%s * 32)", held as
\* the factor 32; 0 stands for no mod.  The float, double, int8 and int32
\* rows are left out.
PRIMITIVES ==
    [p \in {"byte", "ubyte", "bool", "short", "ushort", "int", "long", "byte32"} |->
        CASE p = "byte"   -> [primitive |-> "b", size |-> 1, mod |-> 0]
          [] p = "ubyte"  -> [primitive |-> "B", size |-> 1, mod |-> 0]
          [] p = "bool"   -> [primitive |-> "?", size |-> 1, mod |-> 0]
          [] p = "short"  -> [primitive |-> "h", size |-> 2, mod |-> 0]
          [] p = "ushort" -> [primitive |-> "H", size |-> 2, mod |-> 0]
          [] p = "int"    -> [primitive |-> "i", size |-> 4, mod |-> 0]
          [] p = "long"   -> [primitive |-> "q", size |-> 8, mod |-> 0]
          [] p = "byte32" -> [primitive |-> "b", size |-> 1, mod |-> 32]]

\* bool(value): a bool field holds Some(TRUE) or Some(FALSE), and None is
\* false
truth(value) == value # None /\ value[1]

\* struct.unpack of one value of the format character, as a field value.  A
\* 'q' is held as its two signed 32-bit words, the high word first; '?' is
\* true for every byte but 0.
unpack_one(primitive, bytes) ==
    CASE primitive = "H" -> Some(unpack_unsigned(bytes))
      [] primitive = "i" -> Some(unpack_signed(bytes))
      [] primitive = "q" -> <<unpack_signed(SubSeq(bytes, 1, 4)),
                              unpack_signed(SubSeq(bytes, 5, 8))>>
      [] primitive = "b" -> Some(unpack_signed(bytes))
      [] primitive = "B" -> Some(unpack_unsigned(bytes))
      [] primitive = "h" -> Some(unpack_signed(bytes))
      [] primitive = "?" -> Some(bytes[1] # 0)

\* struct.pack of one field value of the format character
pack_one(primitive, value) ==
    CASE primitive = "H" -> pack_int(value[1], 2)
      [] primitive = "i" -> pack_int(value[1], 4)
      [] primitive = "q" -> pack_int(value[1], 4) \o pack_int(value[2], 4)
      [] primitive = "b" -> pack_int(value[1], 1)
      [] primitive = "B" -> pack_int(value[1], 1)
      [] primitive = "h" -> pack_int(value[1], 2)
      [] primitive = "?" -> <<IF truth(value) THEN 1 ELSE 0>>

\* struct.pack takes the value: FALSE where it raises struct.error, for None
\* and for a number outside the range of the format character
packs(primitive, value) ==
    CASE primitive = "?" -> TRUE
      [] primitive = "q" -> value # None
      [] primitive = "i" -> value # None
      [] primitive = "H" -> value # None /\ value[1] >= 0 /\ value[1] <= 65535
      [] primitive = "h" -> value # None /\ value[1] >= -32768 /\ value[1] <= 32767
      [] primitive = "b" -> value # None /\ value[1] >= -128 /\ value[1] <= 127
      [] primitive = "B" -> value # None /\ value[1] >= 0 /\ value[1] <= 255

\* A float is held as the fraction <<numerator, denominator>>.  The read mod
\* "%s / 32.0" of an integer, and the write mod "int(%s * 32)", which
\* truncates toward zero
read_mod(value, mod) == IF mod = 0 THEN value ELSE <<value[1], mod>>

write_mod(value, mod) ==
    IF mod = 0 THEN value
    ELSE LET n == value[1] * mod
         IN  Some(IF n >= 0 THEN n \div value[2] ELSE -((-n) \div value[2]))

\* str.encode("utf8") of string[lo..hi], a string given by its code points
\* (below 2048): a run of ASCII is its own encoding, any other range is halved
RECURSIVE utf8_encode_range(_, _, _)
utf8_encode_range(string, lo, hi) ==
    IF \A i \in lo..hi : string[i] < 128 THEN SubSeq(string, lo, hi)
    ELSE IF lo = hi
    THEN LET c == string[lo]
         IN  IF c < 128 THEN <<c>> ELSE <<192 + (c \div 64), 128 + (c % 64)>>
    ELSE LET mid == (lo + hi) \div 2
         IN  utf8_encode_range(string, lo, mid) \o utf8_encode_range(string, mid + 1, hi)

utf8_encode(string) == utf8_encode_range(string, 1, Len(string))

IsLead(c) == c >= 194 /\ c <= 223
IsContinuation(c) == c >= 128 /\ c <= 191

\* the code points that start in bytes[lo..hi]
RECURSIVE utf8_decode_range(_, _, _)
utf8_decode_range(bytes, lo, hi) ==
    IF \A i \in lo..hi : bytes[i] < 128 THEN SubSeq(bytes, lo, hi)
    ELSE IF lo = hi
    THEN LET c == bytes[lo]
         IN  IF c < 128 THEN <<c>>
             ELSE IF IsLead(c) THEN <<(c - 192) * 64 + (bytes[lo + 1] - 128)>>
             ELSE <<>>
    ELSE LET mid == (lo + hi) \div 2
         IN  utf8_decode_range(bytes, lo, mid) \o utf8_decode_range(bytes, mid + 1, hi)

\* str.decode("utf8"): [ok, string]; ok is FALSE for UnicodeDecodeError.  The
\* one- and two-byte forms: a lead byte takes one continuation byte, and a
\* continuation byte follows a lead byte.
utf8_decode(bytes) ==
    LET valid ==
            \A i \in DOMAIN bytes :
                \/ bytes[i] < 128
                \/ /\ IsLead(bytes[i])
                   /\ i < Len(bytes)
                   /\ IsContinuation(bytes[i + 1])
                \/ /\ IsContinuation(bytes[i])
                   /\ i > 1
                   /\ IsLead(bytes[i - 1])
    IN  IF valid
        THEN [ok |-> TRUE, string |-> utf8_decode_range(bytes, 1, Len(bytes))]
        ELSE [ok |-> FALSE, string |-> <<>>]

Raise(b) == [ok |-> FALSE, value |-> None, b |-> b]

\* the value a varint field holds: None where the body ended in the varint
varint_value(r) ==
    [ok |-> TRUE, value |-> IF r.ok THEN Some(r.value) ELSE None, b |-> r.b]

read_varint_field(b) == varint_value(read_varint(b))

\* read_string after size = read_varint(b): string = b.read(size).decode('utf8')
read_string_sized(size) ==
    IF ~size.ok THEN Raise(size.b)
    ELSE LET decoded == utf8_decode(ReadBytes(size.b, size.value))
         IN  IF ~decoded.ok THEN Raise(ReadSkip(size.b, size.value))
             ELSE [ok |-> TRUE, value |-> decoded.string,
                   b |-> ReadSkip(size.b, size.value)]

read_string(b) == read_string_sized(read_varint(b))

write_string(string) ==
    LET encoded == utf8_encode(string)
    IN  write_varint(Len(encoded)) \o encoded

\* read_byte, read_short, read_ushort, read_int, read_long and read_byte32:
\* unpack(">x", b.read(size))[0], then the read mod
read_primitive(parser, b) ==
    LET size == PRIMITIVES[parser].size
        data == ReadBytes(b, size)
    IN  IF Len(data) # size THEN Raise(ReadSkip(b, size))
        ELSE [ok |-> TRUE,
              value |-> read_mod(unpack_one(PRIMITIVES[parser].primitive, data),
                                 PRIMITIVES[parser].mod),
              b |-> ReadSkip(b, size)]

\* write_byte, write_short, write_ushort, write_int, write_long and
\* write_byte32: b.write(pack(">x", value)) after the write mod
write_primitive(parser, value) ==
    pack_one(PRIMITIVES[parser].primitive, write_mod(value, PRIMITIVES[parser].mod))

\* read_ubyte(b): ord(b.read(1)), a TypeError at the end of the buffer
read_ubyte(b) ==
    LET data == ReadBytes(b, 1)
    IN  IF Len(data) # 1 THEN Raise(ReadSkip(b, 1))
        ELSE [ok |-> TRUE, value |-> Some(data[1]), b |-> ReadSkip(b, 1)]

\* write_ubyte(b, value): b.write(chr(value))
write_ubyte(value) == <<value[1]>>

\* read_bool(b): b.read(1) == '\x01', false at the end of the buffer too
read_bool(b) ==
    [ok |-> TRUE, value |-> Some(ReadBytes(b, 1) = <<1>>), b |-> ReadSkip(b, 1)]

\* write_bool(b, value): b.write('\x01' if value else '\x00')
write_bool(value) == <<IF truth(value) THEN 1 ELSE 0>>

\* read_bytes_exhaustive(b): b.read(10000000000), all that is left
read_bytes_exhaustive(b) ==
    [ok |-> TRUE, value |-> Unread(b), b |-> ReadSkip(b, Len(Unread(b)))]

\* write_bytes_exhaustive(b, string): b.write(string)
write_bytes_exhaustive(string) == string

read_short_byte_array(b) ==
    LET data == ReadBytes(b, 2)
        size == unpack_signed(data)
    IN  IF Len(data) # 2 THEN Raise(ReadSkip(b, 2))
        ELSE [ok |-> TRUE, value |-> ReadBytes(ReadSkip(b, 2), size),
              b |-> ReadSkip(ReadSkip(b, 2), size)]

write_short_byte_array(value) == pack_int(Len(value), 2) \o value

\* read_varint_byte_array after size = read_varint(b): b.read(size), which
\* raises the TypeError of read(None) where the body ended in the varint
read_varint_byte_array_sized(size) ==
    IF ~size.ok THEN Raise(size.b)
    ELSE [ok |-> TRUE, value |-> ReadBytes(size.b, size.value),
          b |-> ReadSkip(size.b, size.value)]

read_varint_byte_array(b) == read_varint_byte_array_sized(read_varint(b))

write_varint_byte_array(value) == write_varint(Len(value)) \o value

\* json_dumps / json_loads on the JSON texts of the one-digit integers: the
\* value Some(n) is the text of the digit n
json_dumps(value) == <<48 + Val(value)>>

json_loads(string) ==
    IF Len(string) = 1 /\ string[1] >= 48 /\ string[1] <= 57
    THEN [ok |-> TRUE, value |-> Some(string[1] - 48)]
    ELSE [ok |-> FALSE, value |-> None]

\* read_json after s = read_string(b): json.loads(s)
read_json_loads(s) ==
    IF ~s.ok THEN Raise(s.b)
    ELSE LET v == json_loads(s.value)
         IN  IF ~v.ok THEN Raise(s.b)
             ELSE [ok |-> TRUE, value |-> v.value, b |-> s.b]

read_json(b) == read_json_loads(read_string(b))

write_json(value) == write_string(json_dumps(value))

\* read_<parser>(b) and the bytes write_<parser>(b, value) writes
read_field(parser, b) ==
    CASE parser = "varint" -> read_varint_field(b)
      [] parser = "string" -> read_string(b)
      [] parser = "json" -> read_json(b)
      [] parser = "short_byte_array" -> read_short_byte_array(b)
      [] parser = "varint_byte_array" -> read_varint_byte_array(b)
      [] parser = "bytes_exhaustive" -> read_bytes_exhaustive(b)
      [] parser = "ubyte" -> read_ubyte(b)
      [] parser = "bool" -> read_bool(b)
      [] OTHER -> read_primitive(parser, b)

write_field(parser, value) ==
    CASE parser = "varint" -> write_varint(Val(value))
      [] parser = "string" -> write_string(value)
      [] parser = "json" -> write_json(value)
      [] parser = "short_byte_array" -> write_short_byte_array(value)
      [] parser = "varint_byte_array" -> write_varint_byte_array(value)
      [] parser = "bytes_exhaustive" -> write_bytes_exhaustive(value)
      [] parser = "ubyte" -> write_ubyte(value)
      [] parser = "bool" -> write_bool(value)
      [] OTHER -> write_primitive(parser, value)

\* write_<parser>(b, value) returns: FALSE where it raises, for a negative
\* varint (chr of a negative number), for None where a number is due, and for
\* a number outside the range of its struct format
writes(parser, value) ==
    CASE parser = "varint" -> value # None /\ value[1] >= 0
      [] parser \in {"string", "json", "short_byte_array", "varint_byte_array",
                     "bytes_exhaustive"} -> TRUE
      [] parser = "ubyte" -> value # None /\ value[1] >= 0 /\ value[1] <= 255
      [] parser = "bool" -> TRUE
      [] OTHER -> /\ value # None
                  /\ packs(PRIMITIVES[parser].primitive,
                           write_mod(value, PRIMITIVES[parser].mod))

-----------------------------------------------------------------------------
(* The schema compiler: make_packet_type *)

OPTIMIZE == TRUE

\* primitives_optimizer(fields): the parts, each [optimized, fields]; an
\* optimized part is a run of primitive fields packed and unpacked at once.
\* optimize is the value of OPTIMIZE the module was loaded with.
RECURSIVE primitives_optimizer_loop(_, _, _, _, _)
primitives_optimizer_loop(optimize, fields, i, run, parts) ==
    IF i > Len(fields)
    THEN IF run # <<>>
         THEN Append(parts, [optimized |-> TRUE, fields |-> run])
         ELSE parts
    ELSE LET f == fields[i]
         IN  IF optimize /\ f.parser \in DOMAIN PRIMITIVES
             THEN primitives_optimizer_loop(optimize, fields, i + 1, Append(run, f), parts)
             ELSE IF run # <<>>
             THEN primitives_optimizer_loop(optimize, fields, i + 1, <<>>,
                      parts \o <<[optimized |-> TRUE, fields |-> run],
                                 [optimized |-> FALSE, fields |-> <<f>>]>>)
             ELSE primitives_optimizer_loop(optimize, fields, i + 1, <<>>,
                      Append(parts, [optimized |-> FALSE, fields |-> <<f>>]))

primitives_optimizer(fields) ==
    primitives_optimizer_loop(OPTIMIZE, fields, 1, <<>>, <<>>)

RECURSIVE run_size(_)
run_size(run) ==
    IF run = <<>> THEN 0
    ELSE PRIMITIVES[run[1].parser].size + run_size(Drop(run, 1))

\* _RUN_n_UNPACK(data) for a run: the values by field name
RECURSIVE run_unpack(_, _)
run_unpack(run, data) ==
    IF run = <<>> THEN <<>>
    ELSE LET p == PRIMITIVES[run[1].parser]
         IN  (run[1].name :> read_mod(unpack_one(p.primitive, Take(data, p.size)),
                                      p.mod))
             @@ run_unpack(Drop(run, 1), Drop(data, p.size))

\* faulty variant: the values packed as they are, no write mod applied
RECURSIVE run_pack_unmodded(_, _)
run_pack_unmodded(run, values) ==
    IF run = <<>> THEN <<>>
    ELSE pack_one(PRIMITIVES[run[1].parser].primitive, values[run[1].name])
         \o run_pack_unmodded(Drop(run, 1), values)

\* _RUN_n_PACK(values) for a run, the write mods applied first
RECURSIVE run_pack(_, _)
run_pack(run, values) ==
    IF run = <<>> THEN <<>>
    ELSE LET p == PRIMITIVES[run[1].parser]
         IN  pack_one(p.primitive, write_mod(values[run[1].name], p.mod))
             \o run_pack(Drop(run, 1), values)

\* _RUN_n_PACK(values) returns: FALSE where a write mod or the pack raises
run_packs(run, values) ==
    \A i \in DOMAIN run :
        LET p == PRIMITIVES[run[i].parser]
            value == values[run[i].name]
        IN  /\ p.mod # 0 => value # None
            /\ packs(p.primitive, write_mod(value, p.mod))

NoPacket == [id |-> -1, name |-> "", fields |-> <<>>]

\* cls.parse(b): [ok, pkt, b], the parts read in order
RECURSIVE parse_loop(_, _, _, _)
RECURSIVE parse_field(_, _, _, _, _)

\* a part of one field f, after r = read_<parser>(b)
parse_field(schema, parts, values, f, r) ==
    IF ~r.ok
    THEN [ok |-> FALSE, pkt |-> NoPacket, b |-> r.b]
    ELSE parse_loop(schema, Drop(parts, 1), values @@ (f.name :> r.value), r.b)

parse_loop(schema, parts, values, b) ==
    IF parts = <<>>
    THEN [ok |-> TRUE,
          pkt |-> [id |-> schema.id, name |-> schema.name, fields |-> values],
          b |-> b]
    ELSE LET part == parts[1]
         IN  IF part.optimized
             THEN LET size == run_size(part.fields)
                      data == ReadBytes(b, size)
                  IN  IF Len(data) # size
                      THEN [ok |-> FALSE, pkt |-> NoPacket, b |-> ReadSkip(b, size)]
                      ELSE parse_loop(schema, Drop(parts, 1),
                               values @@ run_unpack(part.fields, data),
                               ReadSkip(b, size))
             ELSE parse_field(schema, parts, values, part.fields[1],
                              read_field(part.fields[1].parser, b))

parse(schema, b) ==
    parse_loop(schema, primitives_optimizer(schema.fields), <<>>, b)

\* self.emit(b): the bytes written, the parts in order
RECURSIVE emit_loop(_, _)
emit_loop(parts, values) ==
    IF parts = <<>> THEN <<>>
    ELSE LET part == parts[1]
         IN  (IF part.optimized
              THEN run_pack(part.fields, values)
              ELSE write_field(part.fields[1].parser, values[part.fields[1].name]))
             \o emit_loop(Drop(parts, 1), values)

emit(schema, pkt) == emit_loop(primitives_optimizer(schema.fields), pkt.fields)

\* the first part of self.emit(b) that raises, Len(parts) + 1 when none does
RECURSIVE emit_raises_at(_, _, _)
emit_raises_at(parts, values, i) ==
    IF i > Len(parts) THEN i
    ELSE IF parts[i].optimized /\ ~run_packs(parts[i].fields, values) THEN i
    ELSE IF /\ ~parts[i].optimized
            /\ ~writes(parts[i].fields[1].parser, values[parts[i].fields[1].name])
    THEN i
    ELSE emit_raises_at(parts, values, i + 1)

\* self.emit(b) returns
emits(parts, values) == emit_raises_at(parts, values, 1) > Len(parts)

FieldNames(schema) == {schema.fields[i].name : i \in DOMAIN schema.fields}

\* cls.create(**data): [ok, pkt]; ok is FALSE for the TypeError of a missing or
\* an unknown keyword
create(schema, data) ==
    IF DOMAIN data = FieldNames(schema)
    THEN [ok |-> TRUE, pkt |-> [id |-> schema.id, name |-> schema.name, fields |-> data]]
    ELSE [ok |-> FALSE, pkt |-> NoPacket]

\* The scratch buffer of write_packet: the varint id and what pkt.emit wrote
packet_raw(schema, pkt) == write_varint(pkt.id) \o emit(schema, pkt)

\* write_packet(b, pkt, compression_threshold) returns: it raises where
\* pkt.emit(raw) does, with nothing written to b yet
write_packet_returns(schema, pkt) ==
    emits(primitives_optimizer(schema.fields), pkt.fields)

\* write_packet(b, pkt, compression_threshold): the bytes written to b
write_packet(schema, pkt, compression_threshold) ==
    write_frame(packet_raw(schema, pkt), compression_threshold)

-----------------------------------------------------------------------------
(* Protocol and the registry ProtocolVersion.  A Protocol is [version,       *)
(* states], states the dict _states: state -> the packets of each side by   *)
(* id.  A packet class is its description with the version it was made for. *)

CLIENTBOUND == 0
SERVERBOUND == 1

HANDSHAKE == 0
STATUS == 1
LOGIN == 2
PLAY == 3

Field(name, parser) == [name |-> name, parser |-> parser]
Schema(id, name, fields) == [id |-> id, name |-> name, fields |-> fields]

\* make_packet_type(protocol_version, pkt_id, pkt_name, desc): the class
make_packet_type(protocol_version, pkt_id, pkt_name, desc) ==
    [id |-> pkt_id, name |-> pkt_name, fields |-> desc, version |-> protocol_version]

NoPackets == [id \in {} |-> make_packet_type(0, 0, "", <<>>)]
NoStates == [state \in {} |-> <<NoPackets, NoPackets>>]
NoProtocols == [version \in {} |-> [version |-> 0, states |-> NoStates]]

\* Protocol(protocol_version)
Protocol(protocol_version) == [version |-> protocol_version, states |-> NoStates]

\* protocol(protocol_version): the registry, with the Protocol made if absent
protocol(registry, protocol_version) ==
    IF protocol_version \in DOMAIN registry THEN registry
    ELSE registry @@ (protocol_version :> Protocol(protocol_version))

\* faulty variant: an id the table holds already keeps its packet
add_packet_keeping(self, state, side, packet) ==
    LET sides == IF state \in DOMAIN self.states THEN self.states[state]
                 ELSE <<NoPackets, NoPackets>>
    IN  [self EXCEPT !.states =
            (state :> [sides EXCEPT ![side + 1] = @ @@ (packet.id :> packet)]) @@ @]

\* Protocol.add_packet(state, side, packet)
add_packet(self, state, side, packet) ==
    LET sides == IF state \in DOMAIN self.states THEN self.states[state]
                 ELSE <<NoPackets, NoPackets>>
    IN  [self EXCEPT !.states =
            (state :> [sides EXCEPT ![side + 1] = (packet.id :> packet) @@ @]) @@ @]

\* the (state, side, id) keys of a Protocol
Keys(self) ==
    UNION { {<<state, side, id>> : id \in DOMAIN self.states[state][side + 1]} :
            state \in DOMAIN self.states, side \in {CLIENTBOUND, SERVERBOUND} }

\* faulty variant: nothing is copied
based_on_nothing(self, other_protocol, keys) == self

\* Protocol.based_on: the loops over the other protocol's states, sides and
\* packets, keys the entries not visited yet
RECURSIVE based_on_loop(_, _, _)
based_on_loop(self, other_protocol, keys) ==
    IF keys = {} THEN self
    ELSE LET key == CHOOSE k \in keys : TRUE
         IN  based_on_loop(
                 add_packet(self, key[1], key[2],
                            other_protocol.states[key[1]][key[2] + 1][key[3]]),
                 other_protocol, keys \ {key})

\* Protocol.based_on(other_protocol_version) on the registry: [ok, registry];
\* ok is FALSE for the KeyError of a version that is not registered
based_on(registry, version, other_protocol_version) ==
    IF other_protocol_version \notin DOMAIN registry
    THEN [ok |-> FALSE, registry |-> registry]
    ELSE [ok |-> TRUE,
          registry |-> [registry EXCEPT ![version] =
              based_on_loop(@, registry[other_protocol_version],
                            Keys(registry[other_protocol_version]))]]

\* faulty variant: the protocols share their tables, the packet goes into
\* every one of them
registered_shared(registry, version, state, side, desc) ==
    [v \in DOMAIN protocol(registry, version) |->
        add_packet(protocol(registry, version)[v], state, side,
                   make_packet_type(version, desc.id, desc.name, desc.fields))]

\* protocol(v).state(state).from_server/from_client(pkt_id, pkt_name, desc)
registered(registry, version, state, side, desc) ==
    [protocol(registry, version) EXCEPT ![version] =
        add_packet(@, state, side,
                   make_packet_type(version, desc.id, desc.name, desc.fields))]

-----------------------------------------------------------------------------
(* The schema catalog, with the PLAY tables cut to id 0x00 *)

Handshake ==
    Schema(0, "Handshake",
           <<Field("version", "varint"), Field("addr", "string"),
             Field("port", "ushort"), Field("state", "varint")>>)
Response == Schema(0, "Response", <<Field("response", "json")>>)
Ping == Schema(1, "Ping", <<Field("time", "long")>>)
Request == Schema(0, "Request", <<>>)
Disconnect == Schema(0, "Disconnect", <<Field("reason", "json")>>)
EncryptionRequest ==
    Schema(1, "EncryptionRequest",
           <<Field("server_id", "string"), Field("public_key", "short_byte_array"),
             Field("challenge_token", "short_byte_array")>>)
LoginSuccess ==
    Schema(2, "LoginSuccess", <<Field("uuid", "string"), Field("username", "string")>>)
LoginStart == Schema(0, "LoginStart", <<Field("name", "string")>>)
EncryptionResponse ==
    Schema(1, "EncryptionResponse",
           <<Field("shared_secret", "short_byte_array"),
             Field("response_token", "short_byte_array")>>)
KeepAlive == Schema(0, "KeepAlive", <<Field("keepalive_id", "int")>>)

\* the packets protocol(47) declares
EncryptionRequest_1_8 ==
    Schema(1, "EncryptionRequest",
           <<Field("server_id", "string"), Field("public_key", "varint_byte_array"),
             Field("challenge_token", "varint_byte_array")>>)
SetCompression == Schema(3, "SetCompression", <<Field("threshold", "varint")>>)
EncryptionResponse_1_8 ==
    Schema(1, "EncryptionResponse",
           <<Field("shared_secret", "varint_byte_array"),
             Field("response_token", "varint_byte_array")>>)
KeepAlive_1_8 == Schema(0, "KeepAlive", <<Field("keepalive_id", "varint")>>)
PluginMessage_1_8 ==
    Schema(63, "PluginMessage",
           <<Field("channel", "string"), Field("data", "bytes_exhaustive")>>)

from_server(version, state, desc) ==
    [op |-> "add_packet", version |-> version, state |-> state,
     side |-> CLIENTBOUND, desc |-> desc]
from_client(version, state, desc) ==
    [op |-> "add_packet", version |-> version, state |-> state,
     side |-> SERVERBOUND, desc |-> desc]
BasedOn(version, other) == [op |-> "based_on", version |-> version, other |-> other]

\* the registrations the module makes when it is imported, in source order
Catalog ==
    << from_client(0, HANDSHAKE, Handshake),
       from_server(0, STATUS, Response),
       from_server(0, STATUS, Ping),
       from_client(0, STATUS, Request),
       from_client(0, STATUS, Ping),
       from_server(0, LOGIN, Disconnect),
       from_server(0, LOGIN, EncryptionRequest),
       from_server(0, LOGIN, LoginSuccess),
       from_client(0, LOGIN, LoginStart),
       from_client(0, LOGIN, EncryptionResponse),
       from_server(0, PLAY, KeepAlive),
       from_client(0, PLAY, KeepAlive),
       BasedOn(1, 0),
       BasedOn(2, 1),
       BasedOn(3, 2),
       BasedOn(4, 3),
       BasedOn(5, 4),
       BasedOn(47, 5),
       from_server(47, LOGIN, EncryptionRequest_1_8),
       from_server(47, LOGIN, SetCompression),
       from_client(47, LOGIN, EncryptionResponse_1_8),
       from_server(47, PLAY, KeepAlive_1_8),
       from_server(47, PLAY, PluginMessage_1_8),
       from_client(47, PLAY, KeepAlive_1_8) >>

\* one registration: [ok, registry]
Registration(registry, call) ==
    IF call.op = "add_packet"
    THEN [ok |-> TRUE,
          registry |-> registered(registry, call.version, call.state, call.side, call.desc)]
    ELSE based_on(protocol(registry, call.version), call.version, call.other)

\* how many registrations the import makes
Registrations == Len(Catalog)

\* the registries the import goes through: registries[k] is the registry
\* after the first k - 1 registrations of the catalog
ImportedThrough(registries, n) ==
    Append(registries, Registration(registries[n], Catalog[n]).registry)

RECURSIVE ImportedUpTo(_)
ImportedUpTo(n) ==
    IF n = 0 THEN <<NoProtocols>>
    ELSE ImportedThrough(ImportedUpTo(n - 1), n)

ImportedRegistries == ImportedUpTo(Registrations)

\* the registry after the first n registrations of the catalog
ImportedTo(n) == ImportedRegistries[n + 1]

\* the registry once the module is imported
Imported == ImportedTo(Registrations)

\* the registry after the calls of the application, in order; a call that
\* raises leaves what it did before raising
RECURSIVE Replayed(_, _)
Replayed(registry, made) ==
    IF made = <<>> THEN registry
    ELSE Replayed(Registration(registry, made[1]).registry, Tail(made))

\* ProtocolVersion, the registry of Protocols: version -> [version, states].
\* It is what the registrations made so far have built.
ProtocolVersion ==
    IF history = <<>> /\ imported = Registrations THEN Imported
    ELSE Replayed(ImportedTo(imported), history)

\* faulty variant: the packets of both sides
get_packets_of_state(self, state, side) ==
    IF state \in DOMAIN self.states
    THEN [ok |-> TRUE, packets |-> self.states[state][1] @@ self.states[state][2]]
    ELSE [ok |-> FALSE, packets |-> NoPackets]

\* Protocol.get_packets(state, side): [ok, packets]; ok is FALSE for the
\* KeyError of a state the protocol has no tables for
get_packets(self, state, side) ==
    IF state \in DOMAIN self.states
    THEN [ok |-> TRUE, packets |-> self.states[state][side + 1]]
    ELSE [ok |-> FALSE, packets |-> NoPackets]

-----------------------------------------------------------------------------
(* Endpoint: [side, protocol, state, state_packets, compression_threshold], *)
(* protocol the version of its Protocol in the registry                     *)

\* faulty variant: the threshold is dropped, the Endpoint stays as it was
set_compression_threshold_dropped(ep, compression_threshold) == ep

set_compression_threshold(ep, compression_threshold) ==
    [ep EXCEPT !.compression_threshold =
        IF compression_threshold = -1 THEN None ELSE Some(compression_threshold)]

\* switch_state(state): [ok, ep]; ok is FALSE when get_packets raises, after
\* the assignment to _state
switch_state(ep, state) ==
    LET ep1 == [ep EXCEPT !.state = state]
        packets == get_packets(ProtocolVersion[ep.protocol], state, ep.side)
    IN  IF packets.ok
        THEN [ok |-> TRUE, ep |-> [ep1 EXCEPT !.state_packets = packets.packets]]
        ELSE [ok |-> FALSE, ep |-> ep1]

\* Endpoint(protocol_version, side)
Endpoint(protocol_version, side) ==
    switch_state([side |-> side, protocol |-> protocol_version, state |-> HANDSHAKE,
                  state_packets |-> NoPackets, compression_threshold |-> None],
                 HANDSHAKE).ep

\* Endpoint.read(buf): [kind, pkt, raw, b, ep].  kind is "None" for (None, None),
\* "pkt" for (pkt, raw) and "raise" for an exception; raw is the body read_raw
\* returned, b the ReadBuffer and ep the Endpoint after the call.

\* faulty variant: the Endpoint follows the state a Handshake names
Endpoint_read_parsed_following(ep, parsed, raw) ==
    IF ~parsed.ok
    THEN [kind |-> "raise", pkt |-> NoPacket, raw |-> raw.data, b |-> raw.b, ep |-> ep]
    ELSE [kind |-> "pkt", pkt |-> parsed.pkt, raw |-> raw.data, b |-> raw.b,
          ep |-> IF parsed.pkt.name = "Handshake" /\ parsed.pkt.fields.state # None
                 THEN switch_state(ep, Val(parsed.pkt.fields.state)).ep
                 ELSE ep]

\* the return value, after parsed = self._state_packets[pkt_id].parse(raw)
Endpoint_read_parsed(ep, parsed, raw) ==
    IF ~parsed.ok
    THEN [kind |-> "raise", pkt |-> NoPacket, raw |-> raw.data, b |-> raw.b, ep |-> ep]
    ELSE [kind |-> "pkt", pkt |-> parsed.pkt, raw |-> raw.data, b |-> raw.b, ep |-> ep]

\* faulty variant: a frame of an unknown id is skipped
Endpoint_read_id_skipping(ep, raw, pkt_id) ==
    IF ~pkt_id.ok \/ pkt_id.value \notin DOMAIN ep.state_packets
    THEN [kind |-> "None", pkt |-> NoPacket, raw |-> <<>>, b |-> raw.b, ep |-> ep]
    ELSE Endpoint_read_parsed(ep, parse(ep.state_packets[pkt_id.value], pkt_id.b), raw)

\* Endpoint.read after pkt_id = read_varint(raw)
Endpoint_read_id(ep, raw, pkt_id) ==
    IF ~pkt_id.ok \/ pkt_id.value \notin DOMAIN ep.state_packets
    THEN [kind |-> "raise", pkt |-> NoPacket, raw |-> raw.data, b |-> raw.b, ep |-> ep]
    ELSE Endpoint_read_parsed(ep, parse(ep.state_packets[pkt_id.value], pkt_id.b), raw)

\* Endpoint.read after raw = read_raw(buf, self._compression_threshold)
Endpoint_read_raw(ep, raw) ==
    IF raw.kind = "None"
    THEN [kind |-> "None", pkt |-> NoPacket, raw |-> <<>>, b |-> raw.b, ep |-> ep]
    ELSE IF raw.kind = "raise"
    THEN [kind |-> "raise", pkt |-> NoPacket, raw |-> raw.data, b |-> raw.b, ep |-> ep]
    ELSE Endpoint_read_id(ep, raw, read_varint(StringIO(raw.data)))

Endpoint_read(ep, buf) == Endpoint_read_raw(ep, read_raw(buf, ep.compression_threshold))

\* faulty variant: the packet emitted straight to buf, so that a field writer
\* that raises leaves the id and the fields before it in buf
Endpoint_write_straight(ep, pkt_id, data) ==
    LET failed == [ok |-> FALSE, pkt |-> NoPacket, bytes |-> <<>>, ep |-> ep]
    IN  IF pkt_id \notin DOMAIN ep.state_packets THEN failed
        ELSE LET schema == ep.state_packets[pkt_id]
                 parts == primitives_optimizer(schema.fields)
                 made == create(schema, data)
             IN  IF ~made.ok THEN failed
                 ELSE IF ~emits(parts, data)
                 THEN [failed EXCEPT !.bytes =
                          write_varint(pkt_id)
                          \o emit_loop(Take(parts, emit_raises_at(parts, data, 1) - 1),
                                       data)]
                 ELSE [ok |-> TRUE, pkt |-> made.pkt, ep |-> ep,
                       bytes |-> write_packet(schema, made.pkt, ep.compression_threshold)]

\* Endpoint.write(buf, pkt_id, **data): [ok, pkt, bytes, ep]; bytes is what the
\* call wrote to buf, ep the Endpoint after the call, and ok is FALSE when it
\* raised
Endpoint_write(ep, pkt_id, data) ==
    LET failed == [ok |-> FALSE, pkt |-> NoPacket, bytes |-> <<>>, ep |-> ep]
    IN  IF pkt_id \notin DOMAIN ep.state_packets THEN failed
        ELSE LET schema == ep.state_packets[pkt_id]
                 made == create(schema, data)
             IN  IF ~made.ok THEN failed
                 ELSE IF ~write_packet_returns(schema, made.pkt) THEN failed
                 ELSE [ok |-> TRUE, pkt |-> made.pkt, ep |-> ep,
                       bytes |-> write_packet(schema, made.pkt, ep.compression_threshold)]

-----------------------------------------------------------------------------
(* The session: a writer and a reader Endpoint of one direction, the writer's *)
(* WriteBuffer, the transport that hands its bytes over in chunks, and the   *)
(* reader's ReadBuffer with the read loop of the examples.                   *)

MaxFrames == 2
MaxCalls == 2
Threshold == 5

\* protocol_version of the example server
ServerProtocolVersion == 4

\* Protocol._states of the session's Protocol
ProtocolStates == Imported[ServerProtocolVersion].states

\* the module is imported, nothing else registered, no snapshot taken
Registry ==
    /\ imported = Registrations
    /\ history = <<>>
    /\ snap = <<>>

StateArgs == {STATUS, LOGIN, PLAY, PLAY + 1}
ThresholdArgs == {-1, 0, Threshold}

NoFields == [n \in {} |-> None]

\* The Endpoint.write calls the writer's application makes
WriteCalls ==
    { [id |-> 0, data |-> NoFields],
      [id |-> 0, data |-> [version |-> Some(47), addr |-> <<97>>,
                           port |-> Some(25565), state |-> Some(LOGIN)]],
      [id |-> 0, data |-> [response |-> Some(1)]],
      [id |-> 1, data |-> [time |-> <<-1, 1>>]],
      [id |-> 0, data |-> [name |-> <<97, 233>>]],
      [id |-> 1, data |-> [shared_secret |-> <<>>, response_token |-> <<7>>]],
      [id |-> 2, data |-> [uuid |-> <<>>, username |-> <<97>>]],
      [id |-> 0, data |-> [keepalive_id |-> Some(-2)]] }

Idle == [op |-> "init", kind |-> "ok"]

\* a new Endpoint is in the HANDSHAKE state with no compression, the state
\* switch_state(HANDSHAKE) and set_compression_threshold(-1) ask for
Unasked == [state |-> HANDSHAKE, threshold |-> -1]
NoSock == [open |-> FALSE]

Init ==
    /\ Registry
    /\ \E side \in {CLIENTBOUND, SERVERBOUND} :
          /\ reader = Endpoint(ServerProtocolVersion, side)
          /\ writer = Endpoint(ServerProtocolVersion, side)
    /\ in_buf = init_buffer(<<>>)
    /\ out_buf = <<>>
    /\ delivered = 0
    /\ sent = <<>>
    /\ got = <<>>
    /\ last = Idle
    /\ calls = 0
    /\ asked = [reader |-> Unasked, writer |-> Unasked]
    /\ sock = NoSock

\* writer.write(out_buf, pkt_id, **data)
Write(pkt_id, data) ==
    /\ Len(sent) < MaxFrames
    /\ LET w == Endpoint_write(writer, pkt_id, data)
       IN  /\ out_buf' = out_buf \o w.bytes
           /\ sent' = IF w.ok
                      THEN Append(sent, [pkt |-> w.pkt, state |-> writer.state,
                                         threshold |-> writer.compression_threshold,
                                         asked |-> asked.writer,
                                         size |-> Len(w.bytes)])
                      ELSE sent
           /\ last' = [op |-> "write", kind |-> IF w.ok THEN "ok" ELSE "raise"]
           /\ writer' = w.ep
    /\ UNCHANGED <<reader, in_buf, delivered, got, calls, asked, sock>>
    /\ UNCHANGED registry_vars

\* The transport hands the next byte over: in_buf.append(sock.recv()).  Two
\* appends with no read between them leave the ReadBuffer as one append of
\* both chunks does, so a recv() of n bytes is n of these steps in a row and
\* the reads fall at every split of the stream.
Deliver ==
    /\ delivered < Len(out_buf)
    /\ in_buf' = append(in_buf, <<out_buf[delivered + 1]>>)
    /\ delivered' = delivered + 1
    /\ last' = [op |-> "append", kind |-> "ok"]
    /\ UNCHANGED <<reader, writer, out_buf, sent, got, calls, asked, sock>>
    /\ UNCHANGED registry_vars

\* The transport hands over everything written so far in one recv().
DeliverAll ==
    /\ delivered < Len(out_buf)
    /\ in_buf' = append(in_buf, Drop(out_buf, delivered))
    /\ delivered' = Len(out_buf)
    /\ last' = [op |-> "append", kind |-> "ok"]
    /\ UNCHANGED <<reader, writer, out_buf, sent, got, calls, asked, sock>>
    /\ UNCHANGED registry_vars

Poisoned == \E j \in DOMAIN got : got[j].kind = "raise"

\* what a read leaves in the buffer and the histories
Recorded(r) ==
    /\ in_buf' = r.b
    /\ got' = IF r.kind = "None" THEN got
              ELSE Append(got, [kind |-> r.kind, pkt |-> r.pkt, raw |-> r.raw,
                                state |-> reader.state,
                                threshold |-> reader.compression_threshold,
                                asked |-> asked.reader,
                                more |-> Len(Unread(r.b)) > 0])
    /\ last' = [op |-> "read", kind |-> r.kind]

\* pkt, pkt_raw = reader.read(in_buf); the read loop ends with an exception
Returned(r) ==
    /\ Recorded(r)
    /\ reader' = r.ep

Read ==
    /\ ~Poisoned
    /\ Returned(Endpoint_read(reader, in_buf))
    /\ UNCHANGED <<writer, out_buf, delivered, sent, calls, asked, sock>>
    /\ UNCHANGED registry_vars

ReaderSwitchState(state) ==
    /\ calls < MaxCalls
    /\ LET r == switch_state(reader, state)
       IN  /\ reader' = r.ep
           /\ last' = [op |-> "switch_state", kind |-> IF r.ok THEN "ok" ELSE "raise"]
    /\ calls' = calls + 1
    /\ asked' = [asked EXCEPT !.reader.state = state]
    /\ UNCHANGED <<writer, in_buf, out_buf, delivered, sent, got, sock>>
    /\ UNCHANGED registry_vars

WriterSwitchState(state) ==
    /\ calls < MaxCalls
    /\ LET r == switch_state(writer, state)
       IN  /\ writer' = r.ep
           /\ last' = [op |-> "switch_state", kind |-> IF r.ok THEN "ok" ELSE "raise"]
    /\ calls' = calls + 1
    /\ asked' = [asked EXCEPT !.writer.state = state]
    /\ UNCHANGED <<reader, in_buf, out_buf, delivered, sent, got, sock>>
    /\ UNCHANGED registry_vars

ReaderSetCompressionThreshold(n) ==
    /\ calls < MaxCalls
    /\ reader' = set_compression_threshold(reader, n)
    /\ last' = [op |-> "set_compression_threshold", kind |-> "ok"]
    /\ calls' = calls + 1
    /\ asked' = [asked EXCEPT !.reader.threshold = n]
    /\ UNCHANGED <<writer, in_buf, out_buf, delivered, sent, got, sock>>
    /\ UNCHANGED registry_vars

WriterSetCompressionThreshold(n) ==
    /\ calls < MaxCalls
    /\ writer' = set_compression_threshold(writer, n)
    /\ last' = [op |-> "set_compression_threshold", kind |-> "ok"]
    /\ calls' = calls + 1
    /\ asked' = [asked EXCEPT !.writer.threshold = n]
    /\ UNCHANGED <<reader, in_buf, out_buf, delivered, sent, got, sock>>
    /\ UNCHANGED registry_vars

Next ==
    \/ \E c \in WriteCalls : Write(c.id, c.data)
    \/ DeliverAll
    \/ Read
    \/ \E state \in StateArgs : ReaderSwitchState(state)
    \/ \E state \in StateArgs : WriterSwitchState(state)
    \/ \E n \in ThresholdArgs : ReaderSetCompressionThreshold(n)
    \/ \E n \in ThresholdArgs : WriterSetCompressionThreshold(n)

Spec == Init /\ [][Next]_vars

-----------------------------------------------------------------------------
(* The stream specification: both endpoints stay in the configuration the    *)
(* session negotiated, the writer writes frames, the transport splits the    *)
(* byte stream at any byte, the reader reads.                                *)

LongLen == 128

\* a server address of LongLen letters: the string's length, the Handshake body's
\* length and the frame's size each take a two-byte varint
LongAddr == [i \in 1..LongLen |-> 97]

StreamWriteCalls ==
    WriteCalls \cup {[id |-> 0, data |-> [version |-> Some(47), addr |-> LongAddr,
                                          port |-> Some(25565), state |-> Some(STATUS)]],
                     [id |-> 0, data |-> [name |-> <<>>]]}

Configured(side, state, n) ==
    set_compression_threshold(
        switch_state(Endpoint(ServerProtocolVersion, side), state).ep, n)

InitStream ==
    /\ Registry
    /\ \E side \in {CLIENTBOUND, SERVERBOUND},
          state \in DOMAIN ProtocolStates, n \in ThresholdArgs :
          /\ reader = Configured(side, state, n)
          /\ writer = Configured(side, state, n)
          /\ asked = [reader |-> [state |-> state, threshold |-> n],
                      writer |-> [state |-> state, threshold |-> n]]
    /\ in_buf = init_buffer(<<>>)
    /\ out_buf = <<>>
    /\ delivered = 0
    /\ sent = <<>>
    /\ got = <<>>
    /\ last = Idle
    /\ calls = 0
    /\ sock = NoSock

NextStream ==
    \/ \E c \in StreamWriteCalls : Write(c.id, c.data)
    \/ Deliver
    \/ Read

SpecStream == InitStream /\ [][NextStream]_vars

-----------------------------------------------------------------------------
(* The raw specification: the peer is no Endpoint, it sends what it likes.   *)
(* The reader stays in one configuration and reads after any chunk; the read *)
(* loop ends with the first exception.                                       *)

MaxFeeds == 3

RequestBody == <<0>>
KeepAliveBody == <<0, 0, 0, 0, 1>>

\* the peer's pieces: size and length bytes, an id no table has, a
\* continuation byte, a KeepAlive body and two zlib streams
RawChunks ==
    {<<0>>, <<1>>, <<5>>, <<128>>,
     <<Len(KeepAliveBody) + 1>>,
     <<Len(zlib_compress(RequestBody)) + 1>>,
     <<Len(zlib_compress(KeepAliveBody)) + 1>>,
     KeepAliveBody, zlib_compress(RequestBody), zlib_compress(KeepAliveBody)}

InitRaw ==
    /\ Registry
    /\ \E side \in {CLIENTBOUND, SERVERBOUND}, state \in {STATUS, PLAY},
          n \in ThresholdArgs :
          /\ reader = Configured(side, state, n)
          /\ writer = Configured(side, state, n)
          /\ asked = [reader |-> [state |-> state, threshold |-> n],
                      writer |-> [state |-> state, threshold |-> n]]
    /\ in_buf = init_buffer(<<>>)
    /\ out_buf = <<>>
    /\ delivered = 0
    /\ sent = <<>>
    /\ got = <<>>
    /\ last = Idle
    /\ calls = 0
    /\ sock = NoSock

\* the peer sends chunk and the read loop appends it: in_buf.append(sock.recv())
Feed(chunk) ==
    /\ ~Poisoned
    /\ calls < MaxFeeds
    /\ out_buf' = out_buf \o chunk
    /\ in_buf' = append(in_buf, chunk)
    /\ delivered' = delivered + Len(chunk)
    /\ calls' = calls + 1
    /\ last' = [op |-> "append", kind |-> "ok"]
    /\ UNCHANGED <<reader, writer, sent, got, asked, sock>>
    /\ UNCHANGED registry_vars

NextRaw ==
    \/ \E chunk \in RawChunks : Feed(chunk)
    \/ Read

SpecRaw == InitRaw /\ [][NextRaw]_vars

-----------------------------------------------------------------------------
(* The cipher and MinecraftSocket: [encrypt, decrypt], each None or a cipher *)

\* the exclusive or of two numbers of n bits
RECURSIVE xor(_, _, _)
xor(x, y, n) ==
    IF n = 0 THEN 0 ELSE ((x + y) % 2) + 2 * xor(x \div 2, y \div 2, n - 1)

\* The block function of the cipher on the shift register, cut to the byte
\* CFB8 uses.  AES is stood in for by a keyed mix of the register's last byte.
block(key, register) == (167 * xor(key[1], register[Len(register)], 8) + 13) % 256

\* generated_cipher(shared_secret): a CFB8 stream cipher, the secret its key
\* and its initial register
generated_cipher(shared_secret) == [key |-> shared_secret, register |-> shared_secret]

\* cipher.encrypt(data): [cipher, data].  Each byte is xored with the block of
\* the register, and the ciphertext byte is shifted into the register.
RECURSIVE cipher_encrypt(_, _, _)
cipher_encrypt(cipher, data, done) ==
    IF data = <<>> THEN [cipher |-> cipher, data |-> done]
    ELSE cipher_encrypt(
             [cipher EXCEPT !.register =
                 Drop(cipher.register, 1)
                     \o <<xor(data[1], block(cipher.key, cipher.register), 8)>>],
             Drop(data, 1),
             Append(done, xor(data[1], block(cipher.key, cipher.register), 8)))

\* cipher.decrypt(data): [cipher, data]
RECURSIVE cipher_decrypt(_, _, _)
cipher_decrypt(cipher, data, done) ==
    IF data = <<>> THEN [cipher |-> cipher, data |-> done]
    ELSE cipher_decrypt(
             [cipher EXCEPT !.register = Drop(cipher.register, 1) \o <<data[1]>>],
             Drop(data, 1),
             Append(done, xor(data[1], block(cipher.key, cipher.register), 8)))

\* MinecraftSocket(sock)
MinecraftSocket == [encrypt |-> None, decrypt |-> None]

set_cipher(s, send_cipher, recv_cipher) ==
    [s EXCEPT !.encrypt = Some(send_cipher), !.decrypt = Some(recv_cipher)]

\* the socket and the bytes that go out, after data = self._encrypt(data)
sent_encrypted(s, e) == [s |-> [s EXCEPT !.encrypt = Some(e.cipher)], data |-> e.data]

\* send(buf): [s, data], data the bytes handed to sendall
send(s, data) ==
    IF IsNone(s.encrypt) THEN [s |-> s, data |-> data]
    ELSE sent_encrypted(s, cipher_encrypt(Val(s.encrypt), data, <<>>))

\* the socket and the bytes returned, after data = self._decrypt(data)
received_decrypted(s, d) == [s |-> [s EXCEPT !.decrypt = Some(d.cipher)], data |-> d.data]

\* recv(): [s, data], for the data the transport returns
recv(s, data) ==
    IF data = <<>> THEN [s |-> s, data |-> <<>>]
    ELSE IF IsNone(s.decrypt) THEN [s |-> s, data |-> data]
    ELSE received_decrypted(s, cipher_decrypt(Val(s.decrypt), data, <<>>))

-----------------------------------------------------------------------------
(* The cipher specification: the login of the example server.  The peer      *)
(* writes LoginStart and EncryptionResponse frames in the clear, installs    *)
(* its cipher after the EncryptionResponse as the example client does, and   *)
(* sends KeepAlive frames on without waiting.  The server loop takes one     *)
(* recv() of any size, appends it, and reads until a read returns None; on   *)
(* the EncryptionResponse it installs the cipher and answers LoginSuccess.   *)

SharedSecret == <<7>>

SockCalls ==
    { [id |-> 0, data |-> [name |-> <<97>>]],
      [id |-> 1, data |-> [shared_secret |-> SharedSecret, response_token |-> <<>>]],
      [id |-> 0, data |-> [keepalive_id |-> Some(1)]] }

InitSock ==
    /\ Registry
    /\ reader = Configured(SERVERBOUND, LOGIN, -1)
    /\ writer = Configured(CLIENTBOUND, LOGIN, -1)
    /\ asked = [reader |-> [state |-> LOGIN, threshold |-> -1],
                writer |-> [state |-> LOGIN, threshold |-> -1]]
    /\ in_buf = init_buffer(<<>>)
    /\ out_buf = <<>>
    /\ delivered = 0
    /\ sent = <<>>
    /\ got = <<>>
    /\ last = Idle
    /\ calls = 0
    /\ sock = [open |-> TRUE,
               pc |-> "recv",
               server |-> MinecraftSocket,
               peer |-> MinecraftSocket,
               peer_writer |-> Configured(SERVERBOUND, LOGIN, -1),
               decrypted |-> <<>>,
               answered |-> <<>>,
               encrypted |-> <<>>]

\* the peer's state after its frame went out: w is what its write returned,
\* o what its send returned
PeerSent(w, o) ==
    /\ out_buf' = out_buf \o o.data
    /\ sent' = Append(sent, [pkt |-> w.pkt, state |-> sock.peer_writer.state,
                             threshold |-> sock.peer_writer.compression_threshold,
                             asked |-> asked.writer,
                             size |-> Len(w.bytes),
                             encrypted |-> ~IsNone(sock.peer.encrypt)])
    /\ sock' = IF w.pkt.name = "EncryptionResponse"
               THEN [sock EXCEPT
                        !.peer = set_cipher(o.s, generated_cipher(SharedSecret),
                                            generated_cipher(SharedSecret)),
                        !.peer_writer = switch_state(sock.peer_writer, PLAY).ep]
               ELSE [sock EXCEPT !.peer = o.s]

PeerWrote(w) == w.ok /\ PeerSent(w, send(sock.peer, w.bytes))

\* the peer: writer.write(out_buf, pkt_id, **data); sock.send(out_buf)
PeerSend(pkt_id, data) ==
    /\ sock.open
    /\ Len(sent) < MaxFrames
    /\ PeerWrote(Endpoint_write(sock.peer_writer, pkt_id, data))
    /\ UNCHANGED <<reader, writer, in_buf, delivered, got, last, calls, asked>>
    /\ UNCHANGED registry_vars

\* the loop after data = self.sock.recv(): in_buf.append(data)
Received(r, n) ==
    /\ in_buf' = append(in_buf, r.data)
    /\ delivered' = delivered + n
    /\ sock' = [sock EXCEPT !.server = r.s, !.pc = "read",
                   !.decrypted = @ \o [i \in 1..n |-> ~IsNone(sock.server.decrypt)]]
    /\ last' = [op |-> "append", kind |-> "ok"]

\* the server loop at data = self.sock.recv(), the transport returning n bytes
Recv(n) ==
    /\ sock.open /\ sock.pc = "recv"
    /\ Received(recv(sock.server, SubSeq(out_buf, delivered + 1, delivered + n)), n)
    /\ UNCHANGED <<reader, writer, out_buf, sent, got, calls, asked>>
    /\ UNCHANGED registry_vars

\* handle_pkt on the EncryptionResponse, after out = self.sock.send(out_buf)
\* of the LoginSuccess frame
Answered(s, o) ==
    sock' = [sock EXCEPT !.server = o.s,
                !.answered = @ \o o.data,
                !.encrypted = @ \o [i \in 1..Len(o.data) |-> ~IsNone(s.encrypt)]]

\* handle_pkt on the EncryptionResponse, the cipher installed in s
Installed(s) ==
    /\ Answered(s, send(s, Endpoint_write(writer, 2, [uuid |-> <<>>, username |-> <<97>>]).bytes))
    /\ reader' = switch_state(reader, PLAY).ep
    /\ writer' = switch_state(writer, PLAY).ep
    /\ asked' = [reader |-> [state |-> PLAY, threshold |-> -1],
                 writer |-> [state |-> PLAY, threshold |-> -1]]

\* self.handle_pkt(pkt) in the LOGIN and PLAY states
handle_pkt(pkt) ==
    IF reader.state = LOGIN /\ pkt.id = 1
    THEN Installed(set_cipher(sock.server,
                              generated_cipher(pkt.fields.shared_secret),
                              generated_cipher(pkt.fields.shared_secret)))
    ELSE UNCHANGED <<reader, writer, asked, sock>>

\* the inner loop after pkt, pkt_raw = self.reader.read(in_buf)
ServerReturned(r) ==
    /\ Recorded(r)
    /\ CASE r.kind = "None" ->
                /\ sock' = [sock EXCEPT !.pc = "recv"]
                /\ UNCHANGED <<reader, writer, asked>>
         [] r.kind = "raise" ->
                /\ sock' = [sock EXCEPT !.open = FALSE]
                /\ UNCHANGED <<reader, writer, asked>>
         [] OTHER -> handle_pkt(r.pkt)

ServerRead ==
    /\ sock.open /\ sock.pc = "read"
    /\ ServerReturned(Endpoint_read(reader, in_buf))
    /\ UNCHANGED <<out_buf, delivered, sent, calls>>
    /\ UNCHANGED registry_vars

NextSock ==
    \/ \E c \in SockCalls : PeerSend(c.id, c.data)
    \/ \E n \in 1..(Len(out_buf) - delivered) : Recv(n)
    \/ ServerRead

SpecSock == InitSock /\ [][NextSock]_vars

-----------------------------------------------------------------------------
(* The version specification: an Endpoint pair of protocol version 0 (the    *)
(* ping example) or 47 (the example client), fresh from construction.  The   *)
(* writer writes Handshake, LoginSuccess and SetCompression, the transport   *)
(* delivers, the reader reads, and the applications call switch_state and    *)
(* set_compression_threshold with the arguments they like.                   *)

Versions == {0, 47}

\* "localhost"
Localhost == <<108, 111, 99, 97, 108, 104, 111, 115, 116>>

HandshakeFields ==
    [version |-> Some(47), addr |-> Localhost, port |-> Some(25565), state |-> Some(LOGIN)]

VersionWriteCalls ==
    { [id |-> 0, data |-> HandshakeFields],
      [id |-> 2, data |-> [uuid |-> <<>>, username |-> <<97>>]],
      [id |-> 3, data |-> [threshold |-> Some(Threshold)]] }

VersionStateArgs == {LOGIN}
VersionThresholdArgs == {-2, -1, Threshold}

InitVersion ==
    /\ Registry
    /\ \E protocol_version \in Versions, side \in {CLIENTBOUND, SERVERBOUND},
          peer \in {CLIENTBOUND, SERVERBOUND} :
          /\ reader = Endpoint(protocol_version, side)
          /\ writer = Endpoint(protocol_version, peer)
    /\ in_buf = init_buffer(<<>>)
    /\ out_buf = <<>>
    /\ delivered = 0
    /\ sent = <<>>
    /\ got = <<>>
    /\ last = Idle
    /\ calls = 0
    /\ asked = [reader |-> Unasked, writer |-> Unasked]
    /\ sock = NoSock

NextVersion ==
    \/ \E c \in VersionWriteCalls : Write(c.id, c.data)
    \/ DeliverAll
    \/ Read
    \/ \E state \in VersionStateArgs : ReaderSwitchState(state)
    \/ \E state \in VersionStateArgs : WriterSwitchState(state)
    \/ \E n \in VersionThresholdArgs : ReaderSetCompressionThreshold(n)
    \/ \E n \in VersionThresholdArgs : WriterSetCompressionThreshold(n)

SpecVersion == InitVersion /\ [][NextVersion]_vars

-----------------------------------------------------------------------------
(* The buffer specification: one ReadBuffer and a caller that appends,       *)
(* reads, takes a snapshot and restores it in any order.  out_buf is every   *)
(* byte appended so far, delivered counts the bytes the reads have consumed, *)
(* and last holds what the last read returned.                               *)

MaxBufferOps == 5

\* a chunk that takes the cursor past the compaction threshold when it is read
BigChunk == MaxSize + 1

AppendSizes == {2, BigChunk}
ReadCounts == {1, BigChunk}

\* the n bytes the transport hands over after the first `offset` bytes of
\* the stream
Chunk(offset, n) == [i \in 1..n |-> (offset + i) % 251]

NoSnapshot == <<>>

InitBuffer ==
    /\ Registry
    /\ reader = Endpoint(ServerProtocolVersion, SERVERBOUND)
    /\ writer = Endpoint(ServerProtocolVersion, SERVERBOUND)
    /\ in_buf = init_buffer(<<>>)
    /\ out_buf = <<>>
    /\ delivered = 0
    /\ sent = <<>>
    /\ got = <<>>
    /\ last = Idle
    /\ calls = 0
    /\ asked = [reader |-> Unasked, writer |-> Unasked]
    /\ sock = NoSock

\* in_buf.append(data), data the next n bytes of the stream
BufferAppend(n) ==
    /\ calls < MaxBufferOps
    /\ in_buf' = append(in_buf, Chunk(Len(out_buf), n))
    /\ out_buf' = out_buf \o Chunk(Len(out_buf), n)
    /\ last' = [op |-> "append", kind |-> "ok"]
    /\ calls' = calls + 1
    /\ UNCHANGED <<reader, writer, delivered, sent, got, asked, sock, imported, history, snap>>

\* data = in_buf.read(count)
BufferRead(count) ==
    /\ calls < MaxBufferOps
    /\ in_buf' = ReadSkip(in_buf, count)
    /\ delivered' = delivered + Len(ReadBytes(in_buf, count))
    /\ last' = [op |-> "read", kind |-> "ok", data |-> ReadBytes(in_buf, count)]
    /\ calls' = calls + 1
    /\ UNCHANGED <<reader, writer, out_buf, sent, got, asked, sock, imported, history, snap>>

\* s = in_buf.snapshot(): [pos, at, restored], pos the snapshot, at the
\* number of bytes of the stream consumed when it was taken
BufferSnapshot ==
    /\ calls < MaxBufferOps
    /\ snap = NoSnapshot
    /\ snap' = <<[pos |-> snapshot(in_buf), at |-> delivered, restored |-> FALSE]>>
    /\ last' = [op |-> "snapshot", kind |-> "ok"]
    /\ calls' = calls + 1
    /\ UNCHANGED <<reader, writer, in_buf, out_buf, delivered, sent, got, asked, sock,
                   imported, history>>

\* in_buf.restore(s): the reads start again from the snapshot
BufferRestore ==
    /\ calls < MaxBufferOps
    /\ snap # NoSnapshot
    /\ in_buf' = restore(in_buf, snap[1].pos)
    /\ delivered' = snap[1].at
    /\ snap' = <<[snap[1] EXCEPT !.restored = TRUE]>>
    /\ last' = [op |-> "restore", kind |-> "ok"]
    /\ calls' = calls + 1
    /\ UNCHANGED <<reader, writer, out_buf, sent, got, asked, sock, imported, history>>

NextBuffer ==
    \/ \E n \in AppendSizes : BufferAppend(n)
    \/ \E count \in ReadCounts : BufferRead(count)
    \/ BufferSnapshot
    \/ BufferRestore

SpecBuffer == InitBuffer /\ [][NextBuffer]_vars

-----------------------------------------------------------------------------
(* The varint specification: a caller writes varints to a buffer with        *)
(* write_varint and reads them back from it with read_varint.  sent holds the *)
(* values written with their bytes, got the results of the reads, out_buf    *)
(* every byte written and delivered the number of bytes the reads consumed.  *)

MaxVarints == 2

\* values at both ends of each encoded length from one byte to five
VarintValues ==
    {0, 1, 127, 128, 300, 16383, 16384, 2097151, 2097152, 268435455, 268435456,
     2147483647}

InitVarint ==
    /\ Registry
    /\ reader = Endpoint(ServerProtocolVersion, SERVERBOUND)
    /\ writer = Endpoint(ServerProtocolVersion, SERVERBOUND)
    /\ in_buf = init_buffer(<<>>)
    /\ out_buf = <<>>
    /\ delivered = 0
    /\ sent = <<>>
    /\ got = <<>>
    /\ last = Idle
    /\ calls = 0
    /\ asked = [reader |-> Unasked, writer |-> Unasked]
    /\ sock = NoSock

\* write_varint(b, value)
VarintWrite(value) ==
    /\ Len(sent) < MaxVarints
    /\ in_buf' = append(in_buf, write_varint(value))
    /\ out_buf' = out_buf \o write_varint(value)
    /\ sent' = Append(sent, [value |-> value, bytes |-> write_varint(value)])
    /\ last' = [op |-> "write_varint", kind |-> "ok"]
    /\ UNCHANGED <<reader, writer, delivered, got, calls, asked, sock>>
    /\ UNCHANGED registry_vars

\* what value = read_varint(b) leaves
VarintReturned(r) ==
    /\ in_buf' = r.b
    /\ delivered' = delivered + (r.b.pos - in_buf.pos)
    /\ got' = IF r.ok
              THEN Append(got, [value |-> r.value, consumed |-> r.b.pos - in_buf.pos])
              ELSE got
    /\ last' = [op |-> "read_varint", kind |-> IF r.ok THEN "ok" ELSE "None"]

VarintRead ==
    /\ VarintReturned(read_varint(in_buf))
    /\ UNCHANGED <<reader, writer, out_buf, sent, calls, asked, sock>>
    /\ UNCHANGED registry_vars

NextVarint ==
    \/ \E value \in VarintValues : VarintWrite(value)
    \/ VarintRead

SpecVarint == InitVarint /\ [][NextVarint]_vars

-----------------------------------------------------------------------------
(* The registry specification: the module is imported, one registration of   *)
(* the catalog at a time, and then the application registers packets and     *)
(* bases protocols on others through the same calls.  history holds the      *)
(* application's calls, whether they returned or raised.                     *)

MaxRegistrations == 2

\* 48 is a version the catalog does not declare
RegistryVersions == {0, 47, 48}
RegistryPackets == {EncryptionRequest_1_8, SetCompression}

NoEndpoint == [side |-> SERVERBOUND, protocol |-> 0, state |-> HANDSHAKE,
               state_packets |-> NoPackets, compression_threshold |-> None]

InitCatalog ==
    /\ imported = 0
    /\ history = <<>>
    /\ snap = <<>>
    /\ reader = NoEndpoint
    /\ writer = NoEndpoint
    /\ in_buf = init_buffer(<<>>)
    /\ out_buf = <<>>
    /\ delivered = 0
    /\ sent = <<>>
    /\ got = <<>>
    /\ last = Idle
    /\ calls = 0
    /\ asked = [reader |-> Unasked, writer |-> Unasked]
    /\ sock = NoSock

\* the next registration of the module body
Import ==
    /\ imported < Registrations
    /\ imported' = imported + 1
    /\ last' = [op |-> Catalog[imported + 1].op, kind |-> "ok"]
    /\ UNCHANGED <<reader, writer, in_buf, out_buf, delivered, sent, got, calls, asked,
                   sock, history, snap>>

\* a registration call of the application
Registered(call) ==
    /\ imported = Registrations
    /\ Len(history) < MaxRegistrations
    /\ history' = Append(history, call)
    /\ last' = [op |-> call.op,
                kind |-> IF Registration(ProtocolVersion, call).ok THEN "ok" ELSE "raise"]
    /\ UNCHANGED <<reader, writer, in_buf, out_buf, delivered, sent, got, calls, asked,
                   sock, imported, snap>>

\* protocol(version).state(LOGIN).from_server(desc.id, desc.name, desc.fields)
RegisterPacket(version, desc) == Registered(from_server(version, LOGIN, desc))

\* protocol(version).based_on(other)
RegisterBasedOn(version, other) == Registered(BasedOn(version, other))

NextCatalog ==
    \/ Import
    \/ \E version \in RegistryVersions, desc \in RegistryPackets :
          RegisterPacket(version, desc)
    \/ \E version \in RegistryVersions, other \in RegistryVersions :
          RegisterBasedOn(version, other)

SpecCatalog == InitCatalog /\ [][NextCatalog]_vars

-----------------------------------------------------------------------------
(* The codecs of the composite field types.  A Python integer too wide for  *)
(* 31 bits is held as its bits, the least significant first.                *)

RECURSIVE bits(_)
bits(n) == IF n = 0 THEN <<>> ELSE <<n % 2>> \o bits(n \div 2)

\* a << k
shift_left(a, k) == IF a = <<>> THEN <<>> ELSE [i \in 1..k |-> 0] \o a

\* a | b
bits_or(a, b) ==
    [i \in 1..Max(Len(a), Len(b)) |->
        IF (i <= Len(a) /\ a[i] = 1) \/ (i <= Len(b) /\ b[i] = 1) THEN 1 ELSE 0]

\* (a >> lo) & (2 ** width - 1), a number of at most 30 bits
RECURSIVE bit_field(_, _, _)
bit_field(a, lo, width) ==
    IF width = 0 THEN 0
    ELSE (IF lo + 1 <= Len(a) THEN a[lo + 1] ELSE 0)
         + 2 * bit_field(a, lo + 1, width - 1)

\* pack(">Q", a): [ok, bytes]; struct.error for a number of more than 64 bits
pack_ulong(a) ==
    IF Len(a) > 64 THEN [ok |-> FALSE, bytes |-> <<>>]
    ELSE [ok |-> TRUE, bytes |-> [k \in 1..8 |-> bit_field(a, 8 * (8 - k), 8)]]

\* unpack(">Q", bytes)[0]
unpack_ulong(bytes) ==
    [i \in 1..64 |-> (bytes[8 - ((i - 1) \div 8)] \div Pow2((i - 1) % 8)) % 2]

Position(x, y, z) == [x |-> x, y |-> y, z |-> z]

\* faulty variant: the field taken as it is, unsigned
twentysix_bit_unsigned(v) == v

twentysix_bit_2_complement(v) == IF v >= 33554432 THEN v - 67108864 ELSE v

\* read_position_packed(b): [ok, value, b]
read_position_packed(b) ==
    LET data == ReadBytes(b, 8)
    IN  IF Len(data) # 8
        THEN [ok |-> FALSE, value |-> Position(0, 0, 0), b |-> ReadSkip(b, 8)]
        ELSE [ok |-> TRUE,
              value |-> Position(
                  twentysix_bit_2_complement(bit_field(unpack_ulong(data), 38, 26)),
                  bit_field(unpack_ulong(data), 26, 12),
                  twentysix_bit_2_complement(bit_field(unpack_ulong(data), 0, 26))),
              b |-> ReadSkip(b, 8)]

\* write_position_packed(b, pos): [ok, bytes], the word
\* (pos.x & 0x3ffffff) << 38 | pos.y << 26 | pos.z & 0x3ffffff packed as an
\* unsigned long.  pos.y is not masked; a negative pos.y makes the word
\* negative, which pack refuses.
write_position_packed(pos) ==
    IF pos.y < 0 THEN [ok |-> FALSE, bytes |-> <<>>]
    ELSE pack_ulong(bits_or(bits_or(shift_left(bits(pos.x % 67108864), 38),
                                    shift_left(bits(pos.y), 26)),
                            bits(pos.z % 67108864)))

\* A float is the fraction <<numerator, denominator>> in lowest terms, the
\* denominator a power of two.  pack(">f", value) of zero and of the normal
\* numbers whose numerator has at most 24 bits.
RECURSIVE Log2(_)
Log2(n) == IF n <= 1 THEN 0 ELSE 1 + Log2(n \div 2)

pack_float(value) ==
    IF value[1] = 0 THEN <<0, 0, 0, 0>>
    ELSE LET a == IF value[1] < 0 THEN -value[1] ELSE value[1]
             biased == Log2(a) - Log2(value[2]) + 127
             mantissa == a * Pow2(23 - Log2(a)) - 8388608
         IN  << (IF value[1] < 0 THEN 128 ELSE 0) + biased \div 2,
                (biased % 2) * 128 + mantissa \div 65536,
                (mantissa \div 256) % 256,
                mantissa % 256 >>

RECURSIVE trailing_zeros(_)
trailing_zeros(n) == IF n % 2 = 1 THEN 0 ELSE 1 + trailing_zeros(n \div 2)

\* unpack(">f", bytes)[0] of zero and of the normal numbers
unpack_float(bytes) ==
    LET biased == (bytes[1] % 128) * 2 + bytes[2] \div 128
        m == 8388608 + (bytes[2] % 128) * 65536 + bytes[3] * 256 + bytes[4]
        sign == IF bytes[1] >= 128 THEN -1 ELSE 1
        exponent == biased - 150 + trailing_zeros(m)
        odd == m \div Pow2(trailing_zeros(m))
    IN  IF biased = 0 THEN <<0, 1>>
        ELSE IF exponent >= 0 THEN <<sign * odd * Pow2(exponent), 1>>
        ELSE <<sign * odd, Pow2(-exponent)>>

read_float(b) ==
    LET data == ReadBytes(b, 4)
    IN  IF Len(data) # 4 THEN Raise(ReadSkip(b, 4))
        ELSE [ok |-> TRUE, value |-> unpack_float(data), b |-> ReadSkip(b, 4)]

write_float(value) == pack_float(value)

\* the readers one after the other: [ok, value, b] with the values in order
RECURSIVE read_items(_, _, _)
RECURSIVE read_item(_, _)

\* what is left of read_items after r = read_item(parsers[1], b)
read_items_after(parsers, values, r) ==
    IF ~r.ok THEN Raise(r.b)
    ELSE read_items(Drop(parsers, 1), Append(values, r.value), r.b)

read_items(parsers, values, b) ==
    IF parsers = <<>> THEN [ok |-> TRUE, value |-> values, b |-> b]
    ELSE read_items_after(parsers, values, read_item(parsers[1], b))

\* Slot(item_id, count, damage, nbt) is the tuple of its fields, nbt
\* Some(bytes) or None.  What is left of read_slot after
\* r = item_id, count, damage, nbt_size:
read_slot_nbt(r) ==
    IF ~r.ok THEN Raise(r.b)
    ELSE IF Val(r.value[4]) # -1
    THEN [ok |-> TRUE,
          value |-> <<r.value[1], r.value[2], r.value[3],
                      Some(ReadBytes(r.b, Val(r.value[4])))>>,
          b |-> ReadSkip(r.b, Val(r.value[4]))]
    ELSE [ok |-> TRUE, value |-> <<r.value[1], r.value[2], r.value[3], None>>,
          b |-> r.b]

\* read_slot(b) after r = read_short(b), the item id
read_slot_item(r) ==
    IF ~r.ok THEN Raise(r.b)
    ELSE IF Val(r.value) = -1 THEN [ok |-> TRUE, value |-> None, b |-> r.b]
    ELSE read_slot_nbt(read_items(<<"byte", "short", "short">>, <<r.value>>, r.b))

read_slot(b) == read_slot_item(read_primitive("short", b))

write_slot(slot) ==
    IF slot = None THEN write_primitive("short", Some(-1))
    ELSE write_primitive("short", slot[1])
         \o write_primitive("byte", slot[2])
         \o write_primitive("short", slot[3])
         \o (IF slot[4] # None
             THEN write_primitive("short", Some(Len(Val(slot[4])))) \o Val(slot[4])
             ELSE write_primitive("short", Some(-1)))

\* Vector(x, y, z) is the tuple of its fields
read_vector(b) == read_items(<<"int", "int", "int">>, <<>>, b)

write_vector(value) ==
    write_primitive("int", value[1]) \o write_primitive("int", value[2])
    \o write_primitive("int", value[3])

\* read_uuid(b): unpack(">QQ", b.read(16)), the number held as its 16 bytes
read_uuid(b) ==
    LET data == ReadBytes(b, 16)
    IN  IF Len(data) # 16 THEN Raise(ReadSkip(b, 16))
        ELSE [ok |-> TRUE, value |-> data, b |-> ReadSkip(b, 16)]

\* in read_list_actions, after r = read_bool(b): the value read if the flag
\* is set, None if not
read_if(parser, r) ==
    IF Val(r.value) THEN read_item(parser, r.b)
    ELSE [ok |-> TRUE, value |-> None, b |-> r.b]

\* the properties of an added player after r = num_properties = read_varint(b)
RECURSIVE read_properties(_, _, _)
read_properties_after(n, properties, r) ==
    IF ~r.ok THEN Raise(r.b)
    ELSE read_properties(n - 1, Append(properties, r.value), r.b)

read_properties(n, properties, b) ==
    IF n = 0 THEN [ok |-> TRUE, value |-> properties, b |-> b]
    ELSE read_properties_after(n, properties,
             read_items(<<"string", "string", "signature">>, <<>>, b))

read_properties_counted(r) ==
    IF ~r.ok THEN Raise(r.b) ELSE read_properties(r.value, <<>>, r.b)

read_item(parser, b) ==
    CASE parser = "uuid" -> read_uuid(b)
      [] parser = "float" -> read_float(b)
      [] parser = "slot" -> read_slot(b)
      [] parser = "vector" -> read_vector(b)
      [] parser = "signature" -> read_if("string", read_bool(b))
      [] parser = "display_name" -> read_if("json", read_bool(b))
      [] parser = "properties" -> read_properties_counted(read_varint(b))
      [] OTHER -> read_field(parser, b)

\* META_READERS and META_WRITERS: the type number -> the codec
META_READERS == <<"byte", "short", "int", "float", "string", "slot", "vector">>

meta_write(meta_type, value) ==
    CASE meta_type = 3 -> write_float(value)
      [] meta_type = 5 -> write_slot(value)
      [] meta_type = 6 -> write_vector(value)
      [] OTHER -> write_field(META_READERS[meta_type + 1], value)

\* read_metadata(b): [ok, value, b], value the dict index -> [type, value].
\* A type with no reader is a KeyError.
RECURSIVE read_metadata_loop(_, _)

\* after r = readers[meta_type](b) for the header item
read_metadata_value(meta, item, r) ==
    IF ~r.ok THEN Raise(r.b)
    ELSE read_metadata_loop(
             [i \in DOMAIN meta \cup {item % 32} |->
                 IF i = item % 32 THEN [type |-> item \div 32, value |-> r.value]
                 ELSE meta[i]],
             r.b)

\* after r = item = read_ubyte(b)
read_metadata_item(meta, r) ==
    IF ~r.ok THEN Raise(r.b)
    ELSE IF Val(r.value) = 127 THEN [ok |-> TRUE, value |-> meta, b |-> r.b]
    ELSE IF Val(r.value) \div 32 + 1 \notin DOMAIN META_READERS THEN Raise(r.b)
    ELSE read_metadata_value(meta, Val(r.value),
             read_item(META_READERS[Val(r.value) \div 32 + 1], r.b))

read_metadata_loop(meta, b) == read_metadata_item(meta, read_ubyte(b))

read_metadata(b) == read_metadata_loop(<<>>, b)

\* write_metadata(b, meta): the bytes written.  meta.iteritems() is taken in
\* the order of the indexes.  The header is meta_type << 5 | index & 0x1f.
RECURSIVE write_metadata_from(_, _)
write_metadata_from(meta, index) ==
    IF index > 31 THEN <<127>>
    ELSE (IF index \in DOMAIN meta
          THEN write_ubyte(Some(meta[index].type * 32 + index))
               \o meta_write(meta[index].type, meta[index].value)
          ELSE <<>>)
         \o write_metadata_from(meta, index + 1)

write_metadata(meta) == write_metadata_from(meta, 0)

LIST_ACTION_REMOVE_PLAYER == 4

\* the readers of one player of read_list_actions after the uuid, by action:
\* ADD_PLAYER, UPDATE_GAMEMODE, UPDATE_LATENCY, UPDATE_DISPLAY_NAME and
\* REMOVE_PLAYER
PlayerReaders ==
    << <<"uuid", "string", "properties", "varint", "varint", "display_name">>,
       <<"uuid", "varint">>,
       <<"uuid", "varint">>,
       <<"uuid", "display_name">>,
       <<"uuid">> >>

\* the loop of read_list_actions over the players; an action with no branch
\* is a ValueError, raised once the uuid of a player is read
RECURSIVE read_players(_, _, _, _)
read_players_after(action, n, players, r) ==
    IF ~r.ok THEN Raise(r.b)
    ELSE read_players(action, n - 1, Append(players, r.value), r.b)

read_player_of(action, n, players, uuid) ==
    IF ~uuid.ok THEN Raise(uuid.b)
    ELSE IF action > LIST_ACTION_REMOVE_PLAYER THEN Raise(uuid.b)
    ELSE read_players_after(action, n, players,
             read_items(Drop(PlayerReaders[action + 1], 1), <<uuid.value>>, uuid.b))

read_players(action, n, players, b) ==
    IF n = 0
    THEN [ok |-> TRUE, value |-> [action |-> action, players |-> players], b |-> b]
    ELSE read_player_of(action, n, players, read_uuid(b))

\* read_list_actions(b) after action and num_players are read; xrange(None)
\* is a TypeError
read_list_actions_of(action, num_players) ==
    IF ~num_players.ok THEN Raise(num_players.b)
    ELSE read_players(action.value, num_players.value, <<>>, num_players.b)

read_list_actions_counted(action) ==
    read_list_actions_of(action, read_varint(action.b))

read_list_actions(b) == read_list_actions_counted(read_varint(b))

-----------------------------------------------------------------------------
(* The codec specification: a caller applies one codec to one input at a    *)
(* time.  got holds the record of the last call: its input and what the     *)
(* call returned; calls counts the calls.                                   *)

MaxCodecCalls == 2

\* packets of protocol(0), PLAY
EntityRelativeMove ==
    Schema(21, "EntityRelativeMove",
           <<Field("eid", "int"), Field("dx", "byte32"), Field("dy", "byte32"),
             Field("dz", "byte32")>>)
ConfirmTransaction ==
    Schema(50, "ConfirmTransaction",
           <<Field("window_id", "ubyte"), Field("action_num", "short"),
             Field("accepted", "bool")>>)
PlayerListItem ==
    Schema(56, "PlayerListItem",
           <<Field("name", "string"), Field("online", "bool"), Field("ping", "short")>>)

\* the field assignments the caller emits
EmitCalls ==
    { [schema |-> EntityRelativeMove,
       data |-> [eid |-> eid, dx |-> dx, dy |-> <<1, 32>>, dz |-> dz]] :
        eid \in {Some(1), Some(-2), None},
        dx \in {<<1, 2>>, <<-1, 2>>, <<1, 64>>, <<4, 1>>},
        dz \in {<<0, 1>>, <<-4, 1>>, <<-129, 32>>} }
    \cup
    { [schema |-> ConfirmTransaction,
       data |-> [window_id |-> w, action_num |-> a, accepted |-> acc]] :
        w \in {Some(0), Some(255), Some(256)},
        a \in {Some(-32768), Some(7), Some(32768)},
        acc \in {Some(TRUE), Some(FALSE), None} }
    \cup
    { [schema |-> PlayerListItem,
       data |-> [name |-> <<97, 233>>, online |-> o, ping |-> p]] :
        o \in {Some(TRUE), Some(FALSE)},
        p \in {Some(-1), Some(300), Some(40000)} }

\* the bodies the caller parses
ParseCalls ==
    { [schema |-> ConfirmTransaction, body |-> <<w, 1, 44, acc>>] :
        w \in {0, 200}, acc \in {0, 1, 2, 255} }
    \cup
    { [schema |-> ConfirmTransaction, body |-> <<7, 255, 255>>],
      [schema |-> EntityRelativeMove, body |-> <<255, 255, 255, 254, 16, 240, 128>>],
      [schema |-> EntityRelativeMove, body |-> <<0, 0, 0, 1, 16>>] }
    \cup
    { [schema |-> PlayerListItem, body |-> <<1, 97, o, 1, 44>>] : o \in {0, 1, 128} }
    \cup
    { [schema |-> PlayerListItem, body |-> <<1, 97>>] }

\* the byte strings the caller reads a varint from
VarintInputs ==
    { <<>>, <<0>>, <<127, 1>>, <<128, 1>>, <<255, 255, 255, 255, 7>>,
      <<128, 128, 128, 128, 1>>, <<128, 128, 128, 128, 128, 0>>,
      <<128, 128, 128, 128, 128, 128, 0, 9>>, <<128, 128>> }

\* the positions the caller writes, at and beyond the ends of each range
Positions ==
    { Position(x, y, z) :
        x \in {-33554432, -1, 0, 1, 33554431, 33554432},
        y \in {0, 1, 4095, 4096, 5000, -1},
        z \in {-33554432, -1, 0, 33554431, 67108869} }

Uuid == [i \in 1..16 |-> i]

\* the bodies the caller reads list actions from
ListActionInputs ==
    { <<>>, <<4>>, <<4, 0>>, <<4, 1>> \o Uuid, <<4, 1, 9, 9, 9>>,
      <<5, 0>>, <<5, 1>> \o Uuid, <<7, 0>>, <<200, 1, 0>>, <<200, 1, 1>> \o Uuid,
      <<1, 1>> \o Uuid \o <<2>>,
      <<2, 2>> \o Uuid \o <<9>> \o Uuid \o <<10>>,
      <<3, 1>> \o Uuid \o <<1, 1, 53>>,
      <<3, 1>> \o Uuid \o <<0>>,
      <<0, 1>> \o Uuid \o <<1, 97, 1, 1, 98, 1, 99, 1, 1, 100, 0, 5, 0>>,
      <<0, 1>> \o Uuid \o <<1, 97, 0, 1, 5, 1, 1, 53>> }

Meta(index, type, value) == (index :> [type |-> type, value |-> value])

\* the metadata mappings the caller writes
MetadataCalls ==
    { <<>>,
      Meta(0, 0, Some(-1)),
      Meta(31, 0, Some(7)),
      Meta(1, 1, Some(300)) @@ Meta(2, 2, Some(-5)),
      Meta(31, 2, Some(65536)),
      Meta(3, 3, <<1, 2>>),
      Meta(30, 3, <<-3, 1>>),
      Meta(31, 3, <<1, 2>>),
      Meta(0, 0, Some(1)) @@ Meta(31, 3, <<0, 1>>),
      Meta(6, 4, <<97, 233>>),
      Meta(10, 5, None),
      Meta(10, 5, <<Some(1), Some(64), Some(0), None>>),
      Meta(31, 5, <<Some(1), Some(64), Some(0), Some(<<1, 2>>)>>),
      Meta(12, 6, <<Some(1), Some(-2), Some(3)>>),
      Meta(31, 6, <<Some(0), Some(0), Some(0)>>) @@ Meta(5, 4, <<>>) }

InitCodec ==
    /\ Registry
    /\ reader = Endpoint(ServerProtocolVersion, SERVERBOUND)
    /\ writer = Endpoint(ServerProtocolVersion, SERVERBOUND)
    /\ in_buf = init_buffer(<<>>)
    /\ out_buf = <<>>
    /\ delivered = 0
    /\ sent = <<>>
    /\ got = <<>>
    /\ last = Idle
    /\ calls = 0
    /\ asked = [reader |-> Unasked, writer |-> Unasked]
    /\ sock = NoSock

\* the call is over: record holds its number, its input and its result
CodecCalled(op, ok, record) ==
    /\ calls < MaxCodecCalls
    /\ calls' = calls + 1
    /\ got' = <<record>>
    /\ last' = [op |-> op, kind |-> IF ok THEN "ok" ELSE "raise"]
    /\ UNCHANGED <<reader, writer, in_buf, out_buf, delivered, sent, asked, sock>>
    /\ UNCHANGED registry_vars

\* pkt = cls.create(**data); pkt.emit(b) on an empty buffer b: bytes is what b
\* holds if emit returns
CodecEmitted(schema, data, returns) ==
    CodecCalled("emit", returns,
                [call |-> calls + 1, op |-> "emit", schema |-> schema, values |-> data, ok |-> returns,
                 bytes |-> IF returns
                           THEN emit(schema, create(schema, data).pkt)
                           ELSE <<>>])

CodecEmit(schema, data) ==
    CodecEmitted(schema, data, emits(primitives_optimizer(schema.fields), data))

\* cls.parse(StringIO(body))
CodecParsed(schema, body, r) ==
    CodecCalled("parse", r.ok,
                [call |-> calls + 1, op |-> "parse", schema |-> schema, body |-> body, ok |-> r.ok,
                 pkt |-> r.pkt, consumed |-> r.b.pos])

CodecParse(schema, body) == CodecParsed(schema, body, parse(schema, StringIO(body)))

\* read_varint(StringIO(bytes)); a None for a short read is ok FALSE
CodecVarintRead(bytes, r) ==
    CodecCalled("read_varint", r.ok,
                [call |-> calls + 1, op |-> "read_varint", bytes |-> bytes, ok |-> r.ok,
                 value |-> r.value, consumed |-> r.b.pos])

CodecReadVarint(bytes) == CodecVarintRead(bytes, read_varint(StringIO(bytes)))

\* write_position_packed(b, pos), then read_position_packed on what b holds
CodecPositionWritten(pos, w) ==
    CodecCalled("position_packed", w.ok,
                [call |-> calls + 1, op |-> "position_packed", pos |-> pos, ok |-> w.ok,
                 bytes |-> w.bytes,
                 back |-> IF w.ok THEN read_position_packed(StringIO(w.bytes)).value
                          ELSE pos])

CodecPosition(pos) == CodecPositionWritten(pos, write_position_packed(pos))

\* read_list_actions(StringIO(bytes))
CodecListActionsRead(bytes, r) ==
    CodecCalled("read_list_actions", r.ok,
                [call |-> calls + 1, op |-> "read_list_actions", bytes |-> bytes, ok |-> r.ok,
                 value |-> r.value])

CodecListActions(bytes) ==
    CodecListActionsRead(bytes, read_list_actions(StringIO(bytes)))

\* write_metadata(b, meta), then read_metadata on what b holds
CodecMetadataRead(meta, bytes, r) ==
    CodecCalled("metadata", r.ok,
                [call |-> calls + 1, op |-> "metadata", meta |-> meta, bytes |-> bytes, ok |-> r.ok,
                 back |-> r.value, consumed |-> r.b.pos])

CodecMetadataWritten(meta, bytes) ==
    CodecMetadataRead(meta, bytes, read_metadata(StringIO(bytes)))

CodecMetadata(meta) == CodecMetadataWritten(meta, write_metadata(meta))

NextCodec ==
    \/ \E c \in EmitCalls : CodecEmit(c.schema, c.data)
    \/ \E c \in ParseCalls : CodecParse(c.schema, c.body)
    \/ \E bytes \in VarintInputs : CodecReadVarint(bytes)
    \/ \E pos \in Positions : CodecPosition(pos)
    \/ \E bytes \in ListActionInputs : CodecListActions(bytes)
    \/ \E meta \in MetadataCalls : CodecMetadata(meta)

SpecCodec == InitCodec /\ [][NextCodec]_vars

-----------------------------------------------------------------------------
(* The frame specification: a clientbound Endpoint pair of the example      *)
(* client's version in the PLAY state, with or without compression.  The     *)
(* writer writes PluginMessage and KeepAlive packets with good and bad       *)
(* arguments, the peer also puts frames of its own making on the stream, the *)
(* transport delivers and the reader reads.                                  *)

\* protocol_version of the example client
ClientProtocolVersion == 47

MaxSends == 1

Playing(n) ==
    set_compression_threshold(
        switch_state(Endpoint(ClientProtocolVersion, CLIENTBOUND), PLAY).ep, n)

\* the writes: a plugin message below the threshold and one above it, a
\* keepalive whose id no varint holds, one with its field missing, and an id
\* the table lacks
BodyWriteCalls ==
    { [id |-> 63, data |-> [channel |-> <<97>>, data |-> <<1, 2>>]],
      [id |-> 63, data |-> [channel |-> <<>>, data |-> <<1, 2, 3, 4, 5, 6>>]],
      [id |-> 0, data |-> [keepalive_id |-> Some(-2)]],
      [id |-> 0, data |-> NoFields],
      [id |-> 9, data |-> NoFields] }

\* the frames of the peer's own making: a KeepAlive with a byte after its
\* field, and a frame of three bytes that starts 0x80 0x00
PeerFrames == {<<3, 0, 5, 9>>, <<3, 128, 0, 0>>}

InitBody ==
    /\ Registry
    /\ \E n \in {-1, Threshold} :
          /\ reader = Playing(n)
          /\ writer = Playing(n)
          /\ asked = [reader |-> [state |-> PLAY, threshold |-> n],
                      writer |-> [state |-> PLAY, threshold |-> n]]
    /\ in_buf = init_buffer(<<>>)
    /\ out_buf = <<>>
    /\ delivered = 0
    /\ sent = <<>>
    /\ got = <<>>
    /\ last = Idle
    /\ calls = 0
    /\ sock = NoSock

\* the peer puts a frame on the stream
PeerPuts(frame) ==
    /\ calls < MaxSends
    /\ out_buf' = out_buf \o frame
    /\ calls' = calls + 1
    /\ last' = [op |-> "send", kind |-> "ok"]
    /\ UNCHANGED <<reader, writer, in_buf, delivered, sent, got, asked, sock>>
    /\ UNCHANGED registry_vars

NextBody ==
    \/ \E c \in BodyWriteCalls : Write(c.id, c.data)
    \/ \E frame \in PeerFrames : PeerPuts(frame)
    \/ DeliverAll
    \/ Read

SpecBody == InitBody /\ [][NextBody]_vars

-----------------------------------------------------------------------------
(* What the histories say about the byte stream *)

\* the offset in out_buf at which frame j ends
RECURSIVE FrameEnd(_)
FrameEnd(j) == IF j = 0 THEN 0 ELSE FrameEnd(j - 1) + sent[j].size

FrameBytes(j) == SubSeq(out_buf, FrameEnd(j - 1) + 1, FrameEnd(j))

\* the schema the writer framed packet j with
SentSchema(j) == ProtocolStates[sent[j].state][writer.side + 1][sent[j].pkt.id]

SentRaw(j) == packet_raw(SentSchema(j), sent[j].pkt)

\* the frames the transport has handed over whole
CompleteFrames == Cardinality({j \in DOMAIN sent : FrameEnd(j) <= delivered})

SamePacket(a, b) == a.id = b.id /\ a.name = b.name /\ a.fields = b.fields

\* The ReadBuffer holds a strict prefix of the next frame and nothing else: the
\* cursor is on a frame boundary and the frame is not all there.
HoldsStrictPrefix ==
    /\ Len(got) < Len(sent)
    /\ in_buf.pos = FrameEnd(Len(got))
    /\ delivered < FrameEnd(Len(got) + 1)

-----------------------------------------------------------------------------
(* Claims of the stream specification *)

\* C1: the reads return the packets of the frames written, in wire order, for
\* every way the transport splits the stream: no read returns anything else,
\* and a read reports need-more-data only when every frame that has arrived
\* whole has been returned.
C1_FramingIdempotence ==
    /\ Len(got) <= CompleteFrames
    /\ \A j \in DOMAIN got :
          got[j].kind = "pkt" /\ SamePacket(got[j].pkt, sent[j].pkt)
    /\ (last.op = "read" /\ last.kind = "None") => Len(got) = CompleteFrames

\* two different packets, the second one compressed, were written, split by
\* the transport and both returned
C1_Witness ==
    /\ Len(got) = 2
    /\ got[1].kind = "pkt" /\ got[2].kind = "pkt"
    /\ got[1].pkt # got[2].pkt
    /\ got[1].more
    /\ got[2].threshold = Some(Threshold)
    /\ in_buf.pos = Len(out_buf)

\* C2: a read on a ReadBuffer that holds only a strict prefix of a frame
\* returns (None, None) and leaves the cursor and the bytes as they were.
C2_PartialFrameRestored ==
    [][(last'.op = "read" /\ HoldsStrictPrefix)
          => (last'.kind = "None" /\ in_buf' = in_buf)]_vars

\* a read returned None in compressed mode on a two-byte size varint followed
\* by the first byte of a two-byte data_length varint, after an earlier frame
C2_Witness ==
    /\ last.op = "read" /\ last.kind = "None"
    /\ HoldsStrictPrefix
    /\ ~IsNone(reader.compression_threshold)
    /\ in_buf.pos > 0
    /\ Len(Unread(in_buf)) = 3
    /\ Unread(in_buf)[1] >= 128 /\ Unread(in_buf)[3] >= 128

\* C7: in compressed mode a body shorter than the threshold is framed as it is
\* behind data_length 0, any other body is framed compressed behind its own
\* length; with no threshold the size varint is followed by the body.
C7_CompressionBoundary ==
    \A j \in DOMAIN sent :
        LET frame == FrameBytes(j)
            raw == SentRaw(j)
            total == read_varint(StringIO(frame))
            data_length == read_varint(total.b)
            rest == Unread(data_length.b)
        IN  IF IsNone(sent[j].threshold)
            THEN frame = write_varint(Len(raw)) \o raw
            ELSE /\ data_length.ok
                 /\ IF Len(raw) < Val(sent[j].threshold)
                    THEN data_length.value = 0 /\ rest = raw
                    ELSE /\ data_length.value = Len(raw)
                         /\ rest # raw
                         /\ zlib_decompress(rest) = [ok |-> TRUE, data |-> raw]

\* a body of exactly the threshold's size and a shorter one were both written
C7_Witness ==
    /\ Len(sent) = 2
    /\ sent[1].threshold = Some(Threshold)
    /\ Len(SentRaw(1)) = Threshold
    /\ Len(SentRaw(2)) < Threshold

\* C9: the body read_raw returns is the body write_packet framed, and a
\* frame's size varint counts the bytes that follow it.
C9_FrameRoundTrip ==
    /\ \A j \in DOMAIN got : got[j].raw = SentRaw(j)
    /\ \A j \in DOMAIN sent :
          LET total == read_varint(StringIO(FrameBytes(j)))
          IN  total.ok /\ total.value = sent[j].size - total.b.pos

\* a compressed frame whose body takes a two-byte data_length was read back
C9_Witness ==
    \E j \in DOMAIN got :
        /\ got[j].kind = "pkt"
        /\ ~IsNone(got[j].threshold)
        /\ Len(got[j].raw) >= 128
        /\ sent[j].size > Len(got[j].raw)

-----------------------------------------------------------------------------
(* Claims of the session specification *)

\* the table and the threshold an Endpoint was last asked for
AskedTable(a, side) == ProtocolStates[a.state][side + 1]
AskedThreshold(a) == IF a.threshold = -1 THEN None ELSE Some(a.threshold)

\* C4: a read consumes one frame, so the state and the threshold the reader
\* was asked for before a read decode the frame that read takes, whatever the
\* ReadBuffer held before; the state and the threshold the writer was asked
\* for frame the writes that follow, and the WriteBuffer is only appended to.
C4_NextFrameGoverned ==
    /\ Len(got) <= Len(sent)
    /\ in_buf.pos = FrameEnd(Len(got))
    /\ Len(out_buf) = FrameEnd(Len(sent))
    /\ \A j \in DOMAIN sent :
          sent[j].asked.state \in DOMAIN ProtocolStates =>
              /\ sent[j].pkt.id \in DOMAIN AskedTable(sent[j].asked, writer.side)
              /\ sent[j].pkt.name = AskedTable(sent[j].asked, writer.side)[sent[j].pkt.id].name
              /\ FrameBytes(j) =
                    write_packet(AskedTable(sent[j].asked, writer.side)[sent[j].pkt.id],
                                 sent[j].pkt, AskedThreshold(sent[j].asked))
    /\ \A j \in DOMAIN got :
          (got[j].asked = sent[j].asked /\ got[j].asked.state \in DOMAIN ProtocolStates)
              => (got[j].kind = "pkt" /\ SamePacket(got[j].pkt, sent[j].pkt))

\* two frames of different states were in the ReadBuffer together; the reader
\* switched state between its two reads and returned both packets
C4_Witness ==
    /\ Len(got) = 2
    /\ got[1].more
    /\ got[1].asked.state # got[2].asked.state
    /\ got[1].kind = "pkt" /\ got[2].kind = "pkt"
    /\ got[2].pkt = sent[2].pkt

\* C6: the cached table of each Endpoint is the protocol's table for its
\* state and its side.
C6_CachedTableCurrent ==
    \A ep \in {reader, writer} :
        /\ get_packets(ProtocolVersion[ep.protocol], ep.state, ep.side).ok
        /\ ep.state_packets = get_packets(ProtocolVersion[ep.protocol], ep.state, ep.side).packets

-----------------------------------------------------------------------------
(* Claims of the raw specification *)

\* The frame layout read off the unread bytes of b: the size varint, and in
\* compressed mode the data_length varint and the size_varint(data_length)
\* bytes it takes out of the declared size.
FrameSize(b) == read_varint(b)
FrameDataLength(b) == read_varint(FrameSize(b).b)
FrameRoom(b) == FrameSize(b).value - size_varint(FrameDataLength(b).value)

\* the unread bytes of b start with a whole frame of compressed mode
CompleteCompressed(b) ==
    /\ FrameSize(b).ok
    /\ FrameDataLength(b).ok
    /\ FrameRoom(b) >= 0
    /\ Len(Unread(FrameDataLength(b).b)) >= FrameRoom(b)

CompressedData(b) == ReadBytes(FrameDataLength(b).b, FrameRoom(b))

\* that frame breaks the compression envelope
EnvelopeViolated(b, threshold) ==
    IF FrameDataLength(b).value = 0
    THEN Len(CompressedData(b)) >= threshold
    ELSE /\ zlib_decompress(CompressedData(b)).ok
         /\ \/ Len(zlib_decompress(CompressedData(b)).data) # FrameDataLength(b).value
            \/ Len(zlib_decompress(CompressedData(b)).data) < threshold

\* the unread bytes of b start with a whole frame of uncompressed mode
CompletePlain(b) ==
    /\ FrameSize(b).ok
    /\ Len(Unread(FrameSize(b).b)) >= FrameSize(b).value

\* the unread bytes of b start with a whole frame the reader's mode accepts
Acceptable(b, ep) ==
    IF IsNone(ep.compression_threshold)
    THEN CompletePlain(b)
    ELSE /\ CompleteCompressed(b)
         /\ ~EnvelopeViolated(b, Val(ep.compression_threshold))
         /\ FrameDataLength(b).value # 0 => zlib_decompress(CompressedData(b)).ok

\* the body of that frame
AcceptableBody(b, ep) ==
    IF IsNone(ep.compression_threshold)
    THEN ReadBytes(FrameSize(b).b, FrameSize(b).value)
    ELSE IF FrameDataLength(b).value = 0 THEN CompressedData(b)
    ELSE zlib_decompress(CompressedData(b)).data

\* the body starts with no id of the table of (state, side)
UnknownId(body, ep) ==
    \/ ~read_varint(StringIO(body)).ok
    \/ read_varint(StringIO(body)).value
           \notin DOMAIN get_packets(ProtocolVersion[ep.protocol], ep.state, ep.side).packets

\* the read raised and returned nothing
ReadRaised ==
    /\ last'.op = "read" /\ last'.kind = "raise"
    /\ Len(got') = Len(got) + 1
    /\ got'[Len(got')].kind = "raise"
    /\ got'[Len(got')].pkt = NoPacket

\* C3: a read reports need-more-data only while the ReadBuffer holds fewer
\* bytes than the declared size of the frame asks for (a size varint or, in
\* compressed mode, a data_length varint that is cut short counts as fewer).
C3_NeedMoreOnlyWhenShort ==
    (last.op = "read" /\ last.kind = "None")
        => \/ ~FrameSize(in_buf).ok
           \/ Len(Unread(FrameSize(in_buf).b)) < FrameSize(in_buf).value
           \/ ~IsNone(reader.compression_threshold) /\ ~FrameDataLength(in_buf).ok

\* C8: in compressed mode a read on a whole frame that breaks the envelope
\* (data_length 0 with a body of the threshold's size or more; a compressed
\* body whose decompressed length is not data_length or is under the
\* threshold) raises and returns no body.
C8_EnvelopeEnforced ==
    [][(/\ last'.op = "read"
        /\ ~IsNone(reader.compression_threshold)
        /\ CompleteCompressed(in_buf)
        /\ EnvelopeViolated(in_buf, Val(reader.compression_threshold)))
          => ReadRaised]_vars

\* the read loop ended on a first frame that was whole, compressed and
\* decompressed to fewer bytes than the threshold
C8_Witness ==
    /\ Len(got) = 1 /\ got[1].kind = "raise"
    /\ reader.compression_threshold = Some(Threshold)
    /\ CompleteCompressed(StringIO(in_buf.buf))
    /\ FrameDataLength(StringIO(in_buf.buf)).value > 0
    /\ EnvelopeViolated(StringIO(in_buf.buf), Threshold)
    /\ Len(zlib_decompress(CompressedData(StringIO(in_buf.buf))).data)
           = FrameDataLength(StringIO(in_buf.buf)).value

\* C10: a read on a whole frame whose body starts with no id of the table of
\* the reader's state and side (an empty body has none) raises and returns no
\* packet; a packet a read returns has an id and the name the table gives it.
C10_UnknownIdFatal ==
    [][/\ (/\ last'.op = "read"
           /\ Acceptable(in_buf, reader)
           /\ UnknownId(AcceptableBody(in_buf, reader), reader))
             => ReadRaised
       /\ \A j \in DOMAIN got' :
             got'[j].kind = "pkt" =>
                 /\ got'[j].pkt.id \in DOMAIN get_packets(ProtocolVersion[reader.protocol], reader.state, reader.side).packets
                 /\ got'[j].pkt.name =
                       get_packets(ProtocolVersion[reader.protocol], reader.state, reader.side).packets[got'[j].pkt.id].name]_vars

\* the read loop ended on a first frame that was whole and held the id 5
C10_Witness ==
    /\ Len(got) = 1 /\ got[1].kind = "raise"
    /\ Acceptable(StringIO(in_buf.buf), reader)
    /\ AcceptableBody(StringIO(in_buf.buf), reader) = <<5>>
    /\ in_buf.pos = Len(in_buf.buf)

-----------------------------------------------------------------------------
(* Claims of the cipher specification *)

\* the frame of the peer's stream that byte i belongs to
FrameOf(i) == CHOOSE j \in DOMAIN sent : FrameEnd(j - 1) < i /\ i <= FrameEnd(j)

\* the frame after which the server installs its cipher
IsEncryptionResponse(j) == sent[j].pkt.name = "EncryptionResponse"

\* C5: the bytes the server receives pass through decrypt when they belong to
\* a frame after the EncryptionResponse, and only then; the bytes it sends
\* after set_cipher pass through encrypt.
C5_CipherFromNextFrame ==
    /\ \A i \in DOMAIN sock.decrypted :
          sock.decrypted[i] = (\E k \in 1..(FrameOf(i) - 1) : IsEncryptionResponse(k))
    /\ \A i \in DOMAIN sock.encrypted : sock.encrypted[i]

-----------------------------------------------------------------------------
(* Claims about the Endpoint of any version *)

\* the state, direction, protocol and threshold of an Endpoint
Configuration(ep) == <<ep.state, ep.side, ep.protocol, ep.compression_threshold>>

\* C11: Endpoint.read and Endpoint.write leave the state, the direction, the
\* protocol and the compression threshold of both Endpoints as they were,
\* whatever packet is decoded or encoded; a step that changes an Endpoint's
\* state is a switch_state call, and a step that changes its threshold is a
\* set_compression_threshold call.
C11_ReadWriteKeepConfiguration ==
    [][/\ last'.op \in {"read", "write"} =>
            /\ Configuration(reader') = Configuration(reader)
            /\ Configuration(writer') = Configuration(writer)
       /\ \A ep \in {<<reader, reader'>>, <<writer, writer'>>} :
            /\ ep[2].side = ep[1].side /\ ep[2].protocol = ep[1].protocol
            /\ ep[2].state # ep[1].state => last'.op = "switch_state"
            /\ ep[2].compression_threshold # ep[1].compression_threshold =>
                  last'.op = "set_compression_threshold"]_vars

\* a read has just decoded a Handshake that names the LOGIN state, and the
\* reader is in the HANDSHAKE state still
C11_Witness ==
    /\ last.op = "read" /\ last.kind = "pkt"
    /\ got[Len(got)].pkt.name = "Handshake"
    /\ got[Len(got)].pkt.fields.state = Some(LOGIN)
    /\ reader.state = HANDSHAKE

\* C12: the compression threshold of an Endpoint is absent at first, absent
\* after set_compression_threshold(-1), n after set_compression_threshold(n)
\* with n >= 0, and after any calls with any integers absent or not negative.
C12_ThresholdAbsentOrNatural ==
    \A e \in {"reader", "writer"} :
        LET threshold == (IF e = "reader" THEN reader ELSE writer).compression_threshold
        IN  /\ asked[e].threshold = -1 => IsNone(threshold)
            /\ asked[e].threshold >= 0 => threshold = Some(asked[e].threshold)
            /\ IsNone(threshold) \/ Val(threshold) >= 0

-----------------------------------------------------------------------------
(* Claims about the ReadBuffer *)

\* C13: after restore(s), the reads return exactly the bytes that followed
\* the cursor when the snapshot s was taken, up to the tail of the buffer,
\* whatever reads and appends came between.
C13_RestoreReproduces ==
    last.op = "restore" => ReadBytes(in_buf, -1) = Drop(out_buf, snap[1].at)

\* C14: with no restore, every read returns the bytes of the appended stream
\* that follow the ones read before, and the unread remainder is the rest of
\* the stream: append, compaction included, drops, duplicates and reorders no
\* unread byte.
C14_ReadsFollowAppends ==
    (snap = NoSnapshot \/ ~snap[1].restored) =>
        /\ last.op = "read" =>
              last.data = SubSeq(out_buf, delivered - Len(last.data) + 1, delivered)
        /\ Unread(in_buf) = Drop(out_buf, delivered)

\* an append has compacted the buffer, bytes unread, and a read has returned
\* bytes appended after the compaction
C14_Witness ==
    /\ snap = NoSnapshot
    /\ last.op = "read" /\ last.data # <<>>
    /\ Len(in_buf.buf) < delivered
    /\ delivered > BigChunk

-----------------------------------------------------------------------------
(* The registry's tables against the registrations that built them *)

\* the number of registrations made so far, and the n-th of them: the
\* module's and then the application's
Made == imported + Len(history)
Call(n) == IF n <= imported THEN Catalog[n] ELSE history[n - imported]

\* the registries the application's calls go through: registries[k] is the
\* registry after the first k - 1 of them
ReplayedThrough(registries, k) ==
    Append(registries, Registration(registries[k], history[k]).registry)

RECURSIVE ReplayedUpTo(_)
ReplayedUpTo(k) ==
    IF k = 0 THEN <<Imported>>
    ELSE ReplayedThrough(ReplayedUpTo(k - 1), k)

Replays == ReplayedUpTo(Len(history))

\* the registry after the first n registrations
RegistryAfter(replays, n) ==
    IF n <= imported THEN ImportedTo(n) ELSE replays[n - imported + 1]

AllVersions == {0, 1, 2, 3, 4, 5, 47, 48}
AllKeys == {HANDSHAKE, STATUS, LOGIN, PLAY} \X {CLIENTBOUND, SERVERBOUND} \X (0..3)

\* the protocol holds an entry at key = <<state, side, id>>
Holds(registry, version, key) ==
    /\ version \in DOMAIN registry
    /\ key[1] \in DOMAIN registry[version].states
    /\ key[3] \in DOMAIN registry[version].states[key[1]][key[2] + 1]

Entry(registry, version, key) == registry[version].states[key[1]][key[2] + 1][key[3]]

CallKey(call) == <<call.state, call.side, call.desc.id>>

\* registration j is a based_on that returned, and nothing was registered
\* into the protocol it names since
BasedOnCalled(replays, j) ==
    /\ Call(j).op = "based_on"
    /\ Call(j).other \in DOMAIN RegistryAfter(replays, j - 1)
    /\ \A i \in (j + 1)..Made : Call(i).version # Call(j).other

\* the child registers something of its own at the key: a packet, or after
\* registration j the entry of another protocol it is based on
Overrides(replays, j, child, key) ==
    \E i \in 1..Made :
        /\ Call(i).version = child
        /\ \/ Call(i).op = "add_packet" /\ CallKey(Call(i)) = key
           \/ /\ Call(i).op = "based_on"
              /\ i > j
              /\ Holds(RegistryAfter(replays, i - 1), Call(i).other, key)

\* the child has the key from the parent and nothing of its own there
Inherits(replays, child, parent, key) ==
    \E j \in 1..Made :
        /\ Call(j).op = "based_on"
        /\ Call(j).version = child
        /\ Call(j).other = parent
        /\ BasedOnCalled(replays, j)
        /\ ~Overrides(replays, j, child, key)

SameEntry(registry, child, parent, key) ==
    /\ Holds(registry, child, key)
    /\ Entry(registry, child, key) = Entry(registry, parent, key)

\* in the registry, every based_on call gave its protocol the entries of the
\* other one that it has not overridden
InheritedByCall(replays, registry) ==
    \A j \in 1..Made :
        BasedOnCalled(replays, j) =>
            \A key \in Keys(registry[Call(j).other]) :
                ~Overrides(replays, j, Call(j).version, key)
                    => SameEntry(registry, Call(j).version, Call(j).other, key)

\* the chain of the catalog
Chain == <<0, 1, 2, 3, 4, 5, 47>>

\* the links of the chain: <<m, key>> when Chain[m + 1] inherits the key from
\* Chain[m]
ChainLinks(replays) ==
    {<<m, key>> \in (1..(Len(Chain) - 1)) \X AllKeys :
        Inherits(replays, Chain[m + 1], Chain[m], key)}

\* along the chain, from version Chain[a] to the later Chain[b]
InheritedAlongChain(registry, links) ==
    \A a \in 1..Len(Chain), b \in 1..Len(Chain) :
        a < b /\ Chain[a] \in DOMAIN registry =>
            \A key \in Keys(registry[Chain[a]]) :
                (\A m \in a..(b - 1) : <<m, key>> \in links)
                    => SameEntry(registry, Chain[b], Chain[a], key)

CopiedAll(before, after, version, other) ==
    \A key \in Keys(before[other]) :
        /\ Holds(after, version, key)
        /\ Entry(after, version, key) = Entry(before, other, key)

OverwroteNone(before, after, version) ==
    \A key \in Keys(before[version]) :
        Entry(after, version, key) = Entry(before, version, key)

BasedOnKept(before, after, call) ==
    call.op = "based_on" /\ call.other \in DOMAIN before =>
        /\ CopiedAll(before, after, call.version, call.other)
        /\ OverwroteNone(before, after, call.version)

\* C16: based_on(other) copies every (state, direction, id) entry of the
\* other protocol into this one and overwrites none: every entry this
\* protocol held before the call maps to the same schema after it.
C16_BasedOnOverwritesNone ==
    Made > 0 =>
        BasedOnKept(protocol(RegistryAfter(Replays, Made - 1), Call(Made).version),
                    ProtocolVersion, Call(Made))

\* the packet the registrations 1..n added last to the version at the key:
\* the one a from_server/from_client made, or the one a based_on took from
\* the other protocol as it was then; None when none was added
RECURSIVE LastAdded(_, _, _, _)
LastAdded(replays, n, version, key) ==
    IF n = 0 THEN None
    ELSE IF Call(n).version # version THEN LastAdded(replays, n - 1, version, key)
    ELSE IF Call(n).op = "add_packet"
         THEN IF CallKey(Call(n)) = key
              THEN Some(make_packet_type(version, Call(n).desc.id, Call(n).desc.name,
                                         Call(n).desc.fields))
              ELSE LastAdded(replays, n - 1, version, key)
         ELSE IF Holds(RegistryAfter(replays, n - 1), Call(n).other, key)
              THEN Some(Entry(RegistryAfter(replays, n - 1), Call(n).other, key))
              ELSE LastAdded(replays, n - 1, version, key)

\* the table holds at the key what was added last, and nothing when nothing was
HoldsAdded(registry, version, key, added) ==
    IF IsNone(added) THEN ~Holds(registry, version, key)
    ELSE /\ Holds(registry, version, key)
         /\ Entry(registry, version, key) = Val(added)
         /\ Entry(registry, version, key).id = key[3]

TablesHoldLastAdded(replays, registry) ==
    \A version \in AllVersions, key \in AllKeys :
        HoldsAdded(registry, version, key, LastAdded(replays, Made, version, key))

\* C17: after any sequence of add_packet and based_on calls each (version,
\* state, direction) table maps every packet id to one schema, the one most
\* recently added with that id for that (state, direction); an id nothing
\* was added for is not in the table.
C17_LastAddedWins ==
    \A replays \in {Replays}, registry \in {ProtocolVersion} :
        TablesHoldLastAdded(replays, registry)

\* the application registered a packet over the one the module had
\* registered with the same id in the same table
C17_Witness ==
    /\ history # <<>>
    /\ history[Len(history)] = from_server(0, LOGIN, EncryptionRequest_1_8)
    /\ Entry(Imported, 0, <<LOGIN, CLIENTBOUND, 1>>).fields = EncryptionRequest.fields
    /\ Entry(ProtocolVersion, 0, <<LOGIN, CLIENTBOUND, 1>>).fields
           = EncryptionRequest_1_8.fields

-----------------------------------------------------------------------------
(* The ids an Endpoint accepts against the tables of its Protocol *)

\* the Protocol has tables for the state the Endpoint is in
HasTable(ep) == ep.state \in DOMAIN ProtocolVersion[ep.protocol].states

\* the table of the Protocol for the Endpoint's state and side
Table(ep) == ProtocolVersion[ep.protocol].states[ep.state][ep.side + 1]

\* this step is writer.write(out_buf, c.id, **c.data): an id the table lacks
\* raises and writes nothing, an id it has makes the packet the table gives
WriteFollowsTable(c) ==
    (Write(c.id, c.data) /\ HasTable(writer)) =>
        /\ c.id \notin DOMAIN Table(writer) =>
              last'.kind = "raise" /\ out_buf' = out_buf /\ sent' = sent
        /\ (c.id \in DOMAIN Table(writer) /\ create(Table(writer)[c.id], c.data).ok) =>
              /\ last'.kind = "ok"
              /\ Len(sent') = Len(sent) + 1
              /\ sent'[Len(sent')].pkt.id = c.id
              /\ sent'[Len(sent')].pkt.name = Table(writer)[c.id].name

\* the id the body of a frame starts with
BodyId(body) == read_varint(StringIO(body))

\* this step is reader.read(in_buf) on a whole frame: an id the table lacks
\* raises, an id it has is parsed as the table says
ReadFollowsTable(body) ==
    /\ (~BodyId(body).ok \/ BodyId(body).value \notin DOMAIN Table(reader)) => ReadRaised
    /\ (/\ BodyId(body).ok
        /\ BodyId(body).value \in DOMAIN Table(reader)
        /\ parse(Table(reader)[BodyId(body).value], BodyId(body).b).ok) =>
              /\ last'.kind = "pkt"
              /\ Len(got') = Len(got) + 1
              /\ got'[Len(got')].pkt.id = BodyId(body).value
              /\ got'[Len(got')].pkt.name = Table(reader)[BodyId(body).value].name

\* C18: an Endpoint in state s with direction d accepts packet id i on read
\* and on write exactly when the table of its Protocol for (s, d) defines i;
\* an id only another state's table or the other direction's table defines
\* is rejected.  s is a state the Protocol has tables for.
C18_TableDecidesIds ==
    [][/\ \A c \in WriteCalls \cup VersionWriteCalls : WriteFollowsTable(c)
       /\ (last'.op = "read" /\ HasTable(reader) /\ Acceptable(in_buf, reader))
              => ReadFollowsTable(AcceptableBody(in_buf, reader))]_vars

\* the reader, SERVERBOUND and in the LOGIN state, raised on the LoginSuccess
\* (id 2) that the CLIENTBOUND writer in the LOGIN state had written
C18_Witness ==
    /\ Len(sent) = 1 /\ sent[1].pkt.name = "LoginSuccess"
    /\ writer.side = CLIENTBOUND /\ writer.state = LOGIN
    /\ reader.side = SERVERBOUND /\ reader.state = LOGIN
    /\ 2 \notin DOMAIN Table(reader)
    /\ Len(got) = 1 /\ got[1].kind = "raise" /\ got[1].state = LOGIN
    /\ BodyId(got[1].raw).value = 2

-----------------------------------------------------------------------------
(* Claims about the varint coding *)

\* the values the coding is given bytes for
VarintEdgeCases ==
    { [value |-> 0, bytes |-> <<0>>],
      [value |-> 127, bytes |-> <<127>>],
      [value |-> 128, bytes |-> <<128, 1>>],
      [value |-> 300, bytes |-> <<172, 2>>],
      [value |-> 2097151, bytes |-> <<255, 255, 127>>],
      [value |-> 2147483647, bytes |-> <<255, 255, 255, 255, 7>>] }

\* the number of bytes the first n writes wrote
RECURSIVE WrittenTo(_)
WrittenTo(n) == IF n = 0 THEN 0 ELSE WrittenTo(n - 1) + Len(sent[n].bytes)

\* C19: read_varint on the bytes write_varint(v) wrote returns v and consumes
\* exactly those bytes, the number of bytes written is size_varint(v), and
\* 0, 127, 128, 300, 2097151 and 2147483647 are written as 00, 7f, 80 01,
\* ac 02, ff ff 7f and ff ff ff ff 07.  The values are those up to 2^31 - 1.
C19_VarintRoundTrip ==
    /\ \A j \in DOMAIN sent :
          /\ Len(sent[j].bytes) = size_varint(sent[j].value)
          /\ \A e \in VarintEdgeCases : e.value = sent[j].value => sent[j].bytes = e.bytes
    /\ Len(got) <= Len(sent)
    /\ \A j \in DOMAIN got :
          /\ got[j].value = sent[j].value
          /\ got[j].consumed = Len(sent[j].bytes)
    /\ delivered = WrittenTo(Len(got))

\* 300 and 2147483647 were written and both read back
C19_Witness ==
    /\ Len(sent) = 2 /\ Len(got) = 2
    /\ sent[1].value = 300 /\ sent[2].value = 2147483647
    /\ out_buf = <<172, 2, 255, 255, 255, 255, 7>>
    /\ got[1].value = 300 /\ got[2].value = 2147483647
    /\ delivered = Len(out_buf)

-----------------------------------------------------------------------------
(* The Handshake on the wire *)

\* the frame of the Handshake with version 47, "localhost", 25565 and the
\* LOGIN state after its size byte: the id, the version, the address with
\* its length, the port and the state
HandshakeFrame(size) == <<size, 0, 47, 9>> \o Localhost \o <<99, 221, 2>>

\* the first write was that Handshake, by a SERVERBOUND Endpoint of version
\* 47 in the HANDSHAKE state with no compression
HandshakeWritten ==
    /\ sent # <<>>
    /\ sent[1].pkt.name = "Handshake"
    /\ sent[1].pkt.fields = HandshakeFields
    /\ sent[1].state = HANDSHAKE
    /\ IsNone(sent[1].threshold)
    /\ writer.side = SERVERBOUND
    /\ writer.protocol = 47

\* a SERVERBOUND reader of version 47 in the HANDSHAKE state with no
\* compression has read it back
HandshakeRead ==
    /\ HandshakeWritten
    /\ got # <<>>
    /\ got[1].state = HANDSHAKE
    /\ IsNone(got[1].threshold)
    /\ reader.side = SERVERBOUND
    /\ reader.protocol = 47

HandshakeReadBack ==
    HandshakeRead =>
        /\ got[1].kind = "pkt"
        /\ got[1].pkt.id = 0
        /\ got[1].pkt.fields = HandshakeFields

\* C20 as it is stated: the Handshake is written as the bytes
\* 10 00 2f 09 6c 6f 63 61 6c 68 6f 73 74 63 dd 02, and reading them back
\* yields a packet with the four field values.
C20_HandshakeBytesStated ==
    /\ HandshakeWritten => FrameBytes(1) = HandshakeFrame(16)
    /\ HandshakeReadBack

\* C20: the Handshake is written as the bytes
\* 0f 00 2f 09 6c 6f 63 61 6c 68 6f 73 74 63 dd 02, the size byte counting
\* the 15 bytes after it, and reading them back yields a packet with the
\* four field values.
C20_HandshakeBytes ==
    /\ HandshakeWritten => FrameBytes(1) = HandshakeFrame(15)
    /\ HandshakeReadBack

\* the Handshake was written and read back, and nothing else was
C20_Witness ==
    /\ HandshakeRead
    /\ Len(sent) = 1 /\ Len(got) = 1
    /\ out_buf = HandshakeFrame(Len(out_buf) - 1)
    /\ got[1].pkt.fields.port = Some(25565)
    /\ in_buf.pos = Len(in_buf.buf)

-----------------------------------------------------------------------------
(* What the records of the codec calls say *)

EmitRecords == {j \in DOMAIN got : got[j].op = "emit"}

\* the parts make_packet_type works with when OPTIMIZE is off
Unfused(schema) == primitives_optimizer_loop(FALSE, schema.fields, 1, <<>>, <<>>)

\* write_<parser>(b, value) for each field in declaration order
RECURSIVE FieldByField(_, _)
FieldByField(fields, values) ==
    IF fields = <<>> THEN <<>>
    ELSE write_field(fields[1].parser, values[fields[1].name])
         \o FieldByField(Drop(fields, 1), values)

ListActionRecords == {j \in DOMAIN got : got[j].op = "read_list_actions"}

\* action = read_varint(b), the first varint of the input
ActionRead(bytes) == read_varint(StringIO(bytes))

\* C22: read_list_actions raises for every input whose action value is 5 or
\* more, whatever the player count, and never returns PlayerListActions with
\* an action outside 0..4.
C22_InvalidActionRaises ==
    \A j \in ListActionRecords :
        /\ (ActionRead(got[j].bytes).ok /\ ActionRead(got[j].bytes).value >= 5)
              => ~got[j].ok
        /\ got[j].ok => got[j].value.action \in 0..4

ParseRecords == {j \in DOMAIN got : got[j].op = "parse"}

\* cls.parse(b) as make_packet_type compiles it when OPTIMIZE is off
UnfusedParse(schema, body) == parse_loop(schema, Unfused(schema), <<>>, StringIO(body))

\* the results [ok, pkt, b] of two parses agree
SameParse(ok, pkt, other) == ok = other.ok /\ (ok => pkt = other.pkt)

\* C23: a bool field decodes to true exactly when its wire byte is 0x01,
\* read by read_bool or in a fused run, and parse gives the same values with
\* the fusion on and off.  The bool of ConfirmTransaction is the fourth byte
\* of its body.
C23_BoolIsTrueOnlyForOne ==
    \A j \in ParseRecords :
        /\ SameParse(got[j].ok, got[j].pkt, UnfusedParse(got[j].schema, got[j].body))
        /\ (got[j].ok /\ got[j].schema = ConfirmTransaction)
              => got[j].pkt.fields.accepted = Some(got[j].body[4] = 1)

VarintRecords == {j \in DOMAIN got : got[j].op = "read_varint"}

\* C24: read_varint consumes at most five bytes and never reads a sixth.
C24_VarintAtMostFiveBytes ==
    \A j \in VarintRecords : got[j].consumed <= 5

PositionRecords == {j \in DOMAIN got : got[j].op = "position_packed"}

InRange26(v) == v >= -33554432 /\ v < 33554432

\* C25: for x and z in [-2^25, 2^25) and y in [0, 4096),
\* read_position_packed(write_position_packed(Position(x, y, z))) is
\* Position(x, y, z).
C25_PositionRoundTrip ==
    \A j \in PositionRecords :
        (/\ InRange26(got[j].pos.x)
         /\ InRange26(got[j].pos.z)
         /\ got[j].pos.y \in 0..4095)
        => (got[j].ok /\ Len(got[j].bytes) = 8 /\ got[j].back = got[j].pos)

\* the corners of the ranges went through the round trip
C25_Witness ==
    \E j \in PositionRecords :
        /\ got[j].pos = Position(-33554432, 4095, 33554431)
        /\ got[j].bytes = <<128, 0, 0, 63, 253, 255, 255, 255>>
        /\ got[j].back = got[j].pos

\* a coordinate cut to its field: 26 bits in two's complement
Truncated26(v) == twentysix_bit_2_complement(v % 67108864)

\* C26: a coordinate outside its range is truncated modulo its field mask and
\* the other fields stay intact: for y >= 4096 the word decodes to the
\* original x and z with y mod 4096.
C26_OutOfRangeTruncates ==
    \A j \in PositionRecords :
        /\ got[j].ok
        /\ got[j].back = Position(Truncated26(got[j].pos.x), got[j].pos.y % 4096,
                                  Truncated26(got[j].pos.z))

MetadataRecords == {j \in DOMAIN got : got[j].op = "metadata"}

\* C28: for every metadata mapping with indexes in 0..31 and types of the
\* reader table, read_metadata(write_metadata(m)) returns m and consumes
\* exactly the bytes written, stopping at the terminator 0x7F.
C28_MetadataRoundTrip ==
    \A j \in MetadataRecords :
        /\ got[j].ok
        /\ got[j].back = got[j].meta
        /\ got[j].consumed = Len(got[j].bytes)
        /\ got[j].bytes[Len(got[j].bytes)] = 127

-----------------------------------------------------------------------------
(* Claims about the frames *)

\* where the frame at the cursor of b ends: after its size varint and the
\* number of bytes the varint gives
FrameEndAt(b) == read_varint(b).b.pos + read_varint(b).value

\* C27: after a successful Endpoint.read the cursor of the ReadBuffer is at
\* the end of the frame that was returned, whatever the parser consumed of
\* the body: no byte of the following frame is consumed and none of the
\* frame's own is left.
C27_CursorAtFrameEnd ==
    [][(Read /\ last'.kind = "pkt") =>
            /\ in_buf'.buf = in_buf.buf
            /\ in_buf'.pos = FrameEndAt(in_buf)]_vars

\* the frame write_packet appends for the packet Endpoint.write made
WholeFrame(frame, pkt, ep) ==
    /\ read_raw(init_buffer(frame), ep.compression_threshold).kind = "data"
    /\ Unread(read_raw(init_buffer(frame), ep.compression_threshold).b) = <<>>
    /\ Endpoint_read(ep, init_buffer(frame)).kind = "pkt"
    /\ Endpoint_read(ep, init_buffer(frame)).pkt = pkt

\* this step is writer.write(out_buf, c.id, **c.data)
WriteAllOrNothing(c) ==
    Write(c.id, c.data) =>
        /\ (\/ c.id \notin DOMAIN writer.state_packets
            \/ ~create(writer.state_packets[c.id], c.data).ok
            \/ ~emits(primitives_optimizer(writer.state_packets[c.id].fields), c.data))
              => last'.kind = "raise"
        /\ last'.kind = "raise" => out_buf' = out_buf
        /\ last'.kind = "ok" =>
              /\ Len(sent') = Len(sent) + 1
              /\ Len(out_buf') = Len(out_buf) + sent'[Len(sent')].size
              /\ SubSeq(out_buf', 1, Len(out_buf)) = out_buf
              /\ WholeFrame(Drop(out_buf', Len(out_buf)), sent'[Len(sent')].pkt, writer)

\* C29: Endpoint.write is all or nothing on the output buffer.  If it raises
\* (an id the table lacks, a field missing in create, a field writer raising
\* in emit) the WriteBuffer is as it was; if it returns, exactly one complete
\* frame has been appended after the bytes already there, with and without
\* compression.
C29_WriteAllOrNothing ==
    [][\A c \in BodyWriteCalls : WriteAllOrNothing(c)]_vars

\* a write has just raised, and the buffer holds the frame written before
\* it, a compressed one, and nothing else
C29_Witness ==
    /\ last.op = "write" /\ last.kind = "raise"
    /\ Len(sent) = 1
    /\ sent[1].pkt.name = "PluginMessage"
    /\ sent[1].threshold = Some(Threshold)
    /\ Len(sent[1].pkt.fields.data) = 6
    /\ out_buf = write_frame(<<63, 0, 1, 2, 3, 4, 5, 6>>, Some(Threshold))
    /\ out_buf[2] = 8

-----------------------------------------------------------------------------
(* The parent's tables when the child registers *)

\* registration j made the child a copy of the tables of another protocol,
\* its parent
BasedOnParent(replays, j, child, parent) ==
    /\ Call(j).op = "based_on"
    /\ Call(j).version = child
    /\ Call(j).other = parent
    /\ parent # child
    /\ parent \in DOMAIN RegistryAfter(replays, j - 1)

\* get_packets(state, side) of the protocol gives the same in both registries,
\* the KeyError of a state it has no tables for included
SameTables(before, after, version) ==
    \A state \in StateArgs \cup {HANDSHAKE}, side \in {CLIENTBOUND, SERVERBOUND} :
        get_packets(after[version], state, side)
            = get_packets(before[version], state, side)

\* the last registration is an add_packet on a protocol that is based on
\* others: their tables are what they were before it
ParentsKept(replays, before, after) ==
    Call(Made).op = "add_packet" =>
        \A j \in 1..(Made - 1), parent \in AllVersions :
            BasedOnParent(replays, j, Call(Made).version, parent)
                => SameTables(before, after, parent)

\* C30: registering or overriding a packet in a child protocol after
\* child.based_on(parent) leaves every table of the parent unchanged:
\* parent.get_packets(state, direction) holds the same ids and schemas before
\* and after the add_packet on the child, for every state and direction
\* (RegistryAfter(replays, Made) is the registry as it is now).
C30_ParentTablesUnchanged ==
    Made > 0 =>
        \A replays \in {Replays} :
            ParentsKept(replays, RegistryAfter(replays, Made - 1),
                        RegistryAfter(replays, Made))

\* the application based 48 on 0 and then registered the 1.8
\* EncryptionRequest in 48 over the one copied from 0: 48 holds the new
\* schema, 0 the old one
C30_Witness ==
    /\ history = <<BasedOn(48, 0), from_server(48, LOGIN, EncryptionRequest_1_8)>>
    /\ Entry(ProtocolVersion, 48, <<LOGIN, CLIENTBOUND, 1>>).fields
           = EncryptionRequest_1_8.fields
    /\ Entry(ProtocolVersion, 0, <<LOGIN, CLIENTBOUND, 1>>).fields
           = EncryptionRequest.fields
    /\ Entry(RegistryAfter(Replays, Made - 1), 48, <<LOGIN, CLIENTBOUND, 1>>).fields
           = EncryptionRequest.fields

=============================================================================
